---- MODULE Spec2Model ----
(***************************************************************************)
(* The queue consumer of github.com/twitsprout/tools/queue: Consume, one   *)
(* polling loop, numWorkers workers on one unbuffered channel, and per     *)
(* message a pollMessage with its own context, mutex and two timers.       *)
(* Time is counted in seconds; a timer holds the seconds left until it     *)
(* fires.  Steps of a timer goroutine that do not block take no time.      *)
(***************************************************************************)
EXTENDS Integers, Sequences, FiniteSets, TLC

(* Bounds of the model: the messages the queue holds when Consume starts,  *)
(* without and with a visibility timeout.                                  *)
MaxMsgs == 3
MaxTimedMsgs == 1

(* Configurations the With... setters can produce: <<numWorkers,           *)
(* visibilityTimeout in seconds, whether errHandler is not nil>>.          *)
Configs ==
    {<<1, 0, TRUE>>, <<2, 0, TRUE>>, <<1, 10, TRUE>>, <<1, 0, FALSE>>,
     <<1, -1, TRUE>>}

(* time.Timer pointer states: nil, or a timer that has already fired. *)
NilTimer == -1
FiredTimer == -2

(* poll_message.go: const requestTimeout of updateVisibility, in seconds. *)
RenewTimeout == 10

(* Holders of a pollMessage: the poller, a worker 1..numWorkers, or no one. *)
Poller == 0
Released == -1

VARIABLES
    numWorkers,         \* Consumer.numWorkers
    visibilityTimeout,  \* Consumer.visibilityTimeout
    errHandler,         \* Consumer.errHandler is not nil
    rootDone,           \* the ctx given to Consume is cancelled
    pollerPc,           \* position of poll / pollMessages
    pollMsgs,           \* pollMessages: the pms not yet offered on ch
    chClosed,           \* close(ch) has run
    retErr,             \* the error poll returned
    consumeRet,         \* the value Consume returned, "none" while it runs
    workers,            \* per worker: position and the pm it holds
    pms,                \* every pollMessage created so far
    queued,             \* messages the queue has not handed out yet
    lastErr,            \* the error the latest step handed to handleError
    calls,              \* the calls of errHandler the latest step made
    midHandle,          \* workers inside Handle when the root ctx was cancelled
    callers,            \* goroutines calling cleanup on a pollMessage directly
    sem,                \* semaphore.Semaphore: max, total, sem and the latest return
    procs,              \* goroutines calling AcquireN and ReleaseN on sem or dyn
    dyn,                \* semaphore.Dynamic: cur, size, waiters and the latest return
    dl,                 \* one call of DistributedLock.Do and its goroutines
    lc                  \* one LifeCycle, its processes and its call of Wait

vars == <<numWorkers, visibilityTimeout, errHandler, rootDone, pollerPc,
          pollMsgs, chClosed, retErr, consumeRet, workers, pms, queued, lastErr,
          calls, midHandle, callers, sem, procs, dyn, dl, lc>>

(* What no step of Consume reads or writes. *)
outside == <<callers, sem, procs, dyn, dl, lc>>

config == <<numWorkers, visibilityTimeout, errHandler>>

Workers == 1..numWorkers
Pms == 1..Len(pms)

(* An expiry timer armed past the visibility timeout. *)
expiryDurLong(v) == (19 * v) \div 10

(* An extend timer armed at 95% of the visibility timeout. *)
extendDurLate(v) == (19 * v) \div 20

(* poll_message.go: expiryPct = 0.9 and extendPct = 0.5 of the visibility  *)
(* timeout, truncated by the conversion to time.Duration.                  *)
expiryDur(v) == (9 * v) \div 10
extendDur(v) == v \div 2

Armed(t) == t >= 0

(* pm.cancel().  What is measured about a live context (age, the time the *)
(* call in flight has taken, whether every renewal was in time) stops      *)
(* being measured: a request whose context is done returns at once.        *)
cancel(pm) ==
    IF pm.ctxDone THEN pm
    ELSE [pm EXCEPT !.ctxDone = TRUE, !.age = 0, !.el = 0, !.inMargin = TRUE]

(* unsafeCleanupTimers that stops the timers and keeps the pointers: a     *)
(* stopped timer stays in its slot and never fires.                        *)
unsafeCleanupTimersKeep(pm) ==
    [pm EXCEPT
        !.expiryTimer = IF @ # NilTimer THEN FiredTimer ELSE @,
        !.extendTimer = IF @ # NilTimer THEN FiredTimer ELSE @,
        !.expiryStops = IF pm.expiryTimer # NilTimer THEN @ + 1 ELSE @,
        !.extendStops = IF pm.extendTimer # NilTimer THEN @ + 1 ELSE @]

(* unsafeCleanupTimers: each timer that is not nil is stopped and its slot *)
(* set to nil; expiryStops and extendStops count the Stop calls on the     *)
(* timer that was last put into the slot.                                  *)
unsafeCleanupTimers(pm) ==
    [pm EXCEPT
        !.expiryTimer = NilTimer,
        !.extendTimer = NilTimer,
        !.expiryStops = IF pm.expiryTimer # NilTimer THEN @ + 1 ELSE @,
        !.extendStops = IF pm.extendTimer # NilTimer THEN @ + 1 ELSE @]

(* registerTimers that leaves a running expiry timer alone. *)
armTimersKeepExpiry(pm) ==
    [pm EXCEPT
        !.expiryTimer = IF Armed(@) THEN @ ELSE expiryDur(visibilityTimeout),
        !.extendTimer = extendDur(visibilityTimeout),
        !.age = 0]

(* The timers that still run in the slots of pm. *)
running(pm) ==
    (IF Armed(pm.expiryTimer) THEN 1 ELSE 0)
       + (IF Armed(pm.extendTimer) THEN 1 ELSE 0)

(* registerTimers that puts two new timers into the slots without stopping *)
(* the ones that are there.                                                *)
armTimersNoStop(pm) ==
    [pm EXCEPT
        !.expiryTimer = expiryDur(visibilityTimeout),
        !.extendTimer = extendDur(visibilityTimeout),
        !.expiryStops = 0,
        !.extendStops = 0,
        !.leaked = @ + running(pm),
        !.age = 0]

(* The body of registerTimers after the ctx check, under pm.mu: the old    *)
(* timers are stopped and two new ones, never stopped yet, take the slots. *)
(* A timer still running in a slot that is overwritten is counted in       *)
(* leaked: it runs on with no pointer to it.                               *)
armTimers(pm) ==
    LET q == unsafeCleanupTimers(pm) IN
    [q EXCEPT
        !.expiryTimer = expiryDur(visibilityTimeout),
        !.extendTimer = extendDur(visibilityTimeout),
        !.expiryStops = 0,
        !.extendStops = 0,
        !.leaked = @ + running(q),
        !.age = 0]

(* registerTimers without its check of the visibility timeout. *)
registerTimersAlways(pm) == IF pm.ctxDone THEN pm ELSE armTimers(pm)

(* registerTimers as called by pollMessages on a pm no one else has seen. *)
registerTimers(pm) ==
    IF visibilityTimeout <= 0 THEN pm
    ELSE IF pm.ctxDone THEN pm
    ELSE armTimers(pm)

(* pollMessages: pm := &pollMessage{ctx, cancel, msg, c} with a context    *)
(* derived from context.Background().                                      *)
newPollMessage ==
    [ctxDone |-> FALSE,
     expiryTimer |-> NilTimer, extendTimer |-> NilTimer,
     locked |-> FALSE,
     epc |-> "idle", retries |-> 0, sleep |-> 0, el |-> 0,
     age |-> 0, renewed |-> FALSE, inMargin |-> TRUE,
     owner |-> Poller, cleanups |-> 0, cleaner |-> Released,
     res |-> "none", acks |-> 0,
     expiryStops |-> 0, extendStops |-> 0, handles |-> 0, leaked |-> 0,
     doneAtSend |-> FALSE, ackDone |-> FALSE]

(* A pollMessage that neither the poller, a worker nor an extend goroutine *)
(* refers to any more keeps its context, mutex and timer slots, the result *)
(* of its Handler, the counts of cleanup and AckMessage calls and whether  *)
(* its context was done when a worker received it; what was measured while *)
(* it was in flight is dropped.                                            *)
retire(pm) ==
    [newPollMessage EXCEPT
        !.ctxDone = pm.ctxDone,
        !.expiryTimer = pm.expiryTimer,
        !.extendTimer = pm.extendTimer,
        !.locked = pm.locked,
        !.owner = Released,
        !.cleanups = pm.cleanups,
        !.res = pm.res,
        !.acks = pm.acks,
        !.handles = pm.handles,
        !.leaked = pm.leaked,
        !.doneAtSend = pm.doneAtSend]

settle(pm) ==
    IF pm.owner = Released /\ pm.epc = "idle" THEN retire(pm) ELSE pm

Init ==
    /\ \E c \in Configs :
          numWorkers = c[1] /\ visibilityTimeout = c[2] /\ errHandler = c[3]
    /\ rootDone = FALSE
    /\ pollerPc = "check"
    /\ pollMsgs = <<>>
    /\ chClosed = FALSE
    /\ retErr = "none"
    /\ consumeRet = "none"
    /\ workers = [w \in 1..numWorkers |-> [pc |-> "recv", pm |-> 0]]
    /\ pms = <<>>
    /\ queued = IF visibilityTimeout > 0 THEN MaxTimedMsgs ELSE MaxMsgs
    /\ lastErr = "none"
    /\ calls = 0
    /\ midHandle = -1
    /\ callers = <<>>
    /\ sem = <<>>
    /\ procs = <<>>
    /\ dyn = <<>>
    /\ dl = <<>>
    /\ lc = <<>>

(* handleError calling c.errHandler without looking whether it is nil. *)
handleErrorUnchecked(kind) ==
    /\ lastErr' = kind
    /\ calls' = IF kind # "none" THEN 1 ELSE 0

(* handleError: c.errHandler is called once with an error that is not nil, *)
(* if it is not nil itself; a step that has no error hands over "none".    *)
handleError(kind) ==
    /\ lastErr' = kind
    /\ calls' = IF kind # "none" /\ errHandler THEN 1 ELSE 0

----------------------------------------------------------------------------
(* The caller cancels the context it gave to Consume. *)
CancelRoot ==
    /\ ~rootDone
    /\ consumeRet = "none"
    /\ rootDone' = TRUE
    /\ midHandle' = Cardinality({w \in Workers : workers[w].pc = "handle"})
    /\ UNCHANGED <<outside, config, pollerPc, pollMsgs, chClosed, retErr, consumeRet,
                   workers, pms, queued>>
    /\ handleError("none")

(* poll: the select at the top of the loop. *)
PollCheck ==
    /\ pollerPc = "check"
    /\ IF rootDone
          THEN pollerPc' = "returned" /\ retErr' = "Canceled"
          ELSE pollerPc' = "fetch" /\ retErr' = retErr
    /\ UNCHANGED <<outside, config, rootDone, pollMsgs, chClosed, consumeRet, workers,
                   pms, midHandle, queued>>
    /\ handleError("none")

(* poll returning the error of pollMessages instead of reporting it. *)
GetMessagesErrorFatal ==
    /\ pollerPc = "fetch"
    /\ handleError("fetch")
    /\ pollerPc' = "returned"
    /\ retErr' = "fetch"
    /\ UNCHANGED <<outside, config, rootDone, pollMsgs, chClosed, consumeRet, workers,
                   pms, midHandle, queued>>

(* pollMessages: getMessages returned an error. *)
GetMessagesError ==
    /\ pollerPc = "fetch"
    /\ handleError("fetch")
    /\ pollerPc' = "check"
    /\ UNCHANGED <<outside, config, rootDone, pollMsgs, chClosed, retErr, consumeRet,
                   workers, pms, midHandle, queued>>

(* A request for twice as many messages as there are workers. *)
MessageCountDouble == 2 * numWorkers

(* getMessages: MessageCount: c.numWorkers, the most a fetch returns. *)
MessageCount == numWorkers

(* A dispatch loop that walks the batch from its end. *)
GetMessagesOkReversed(n) ==
    /\ pollerPc = "fetch"
    /\ n <= MessageCount
    /\ n <= queued
    /\ queued' = queued - n
    /\ IF n = 0
          THEN /\ pollerPc' = "check"
               /\ UNCHANGED <<pms, pollMsgs>>
          ELSE /\ pms' = pms \o [k \in 1..n |-> registerTimers(newPollMessage)]
               /\ pollMsgs' = [k \in 1..n |-> Len(pms) + n + 1 - k]
               /\ pollerPc' = "dispatch"
    /\ UNCHANGED <<outside, config, rootDone, chClosed, retErr, consumeRet,
                   workers, midHandle>>
    /\ handleError("none")

(* A pollMessages that offers the pollMessages without registering their  *)
(* timers.                                                                 *)
GetMessagesOkUnarmed(n) ==
    /\ pollerPc = "fetch"
    /\ n <= MessageCount
    /\ n <= queued
    /\ queued' = queued - n
    /\ IF n = 0
          THEN /\ pollerPc' = "check"
               /\ UNCHANGED <<pms, pollMsgs>>
          ELSE /\ pms' = pms \o [k \in 1..n |-> newPollMessage]
               /\ pollMsgs' = [k \in 1..n |-> Len(pms) + k]
               /\ pollerPc' = "dispatch"
    /\ UNCHANGED <<outside, config, rootDone, chClosed, retErr, consumeRet, workers,
                   midHandle>>
    /\ handleError("none")

(* pollMessages: getMessages returned n messages; each gets a pollMessage, *)
(* appended to pms in the order the queue returned them, whose timers are  *)
(* registered before any is offered on the channel.                        *)
GetMessagesOk(n) ==
    /\ pollerPc = "fetch"
    /\ n <= MessageCount
    /\ n <= queued
    /\ queued' = queued - n
    /\ IF n = 0
          THEN /\ pollerPc' = "check"
               /\ UNCHANGED <<pms, pollMsgs>>
          ELSE /\ pms' = pms \o [k \in 1..n |-> registerTimers(newPollMessage)]
               /\ pollMsgs' = [k \in 1..n |-> Len(pms) + k]
               /\ pollerPc' = "dispatch"
    /\ UNCHANGED <<outside, config, rootDone, chClosed, retErr, consumeRet, workers,
                   midHandle>>
    /\ handleError("none")

(* A dispatch loop that ends after its first pollMessage. *)
AfterOfferEager(rest) == "post"

AfterOffer(rest) == IF rest = <<>> THEN "post" ELSE "dispatch"

(* A send on a buffered channel: it does not wait for worker w to receive. *)
SendBuffered(w) ==
    /\ pollerPc = "dispatch"
    /\ pollMsgs # <<>>
    /\ ~chClosed
    /\ pms' = [pms EXCEPT ![Head(pollMsgs)].owner = w,
                           ![Head(pollMsgs)].handles =
                               IF workers[w].pc = "recv" THEN @ + 1 ELSE @]
    /\ workers' = IF workers[w].pc = "recv"
                     THEN [workers EXCEPT
                              ![w] = [pc |-> "handle", pm |-> Head(pollMsgs)]]
                     ELSE workers
    /\ pollMsgs' = Tail(pollMsgs)
    /\ pollerPc' = AfterOffer(Tail(pollMsgs))
    /\ UNCHANGED <<outside, config, rootDone, chClosed, retErr, consumeRet, midHandle,
                   queued>>
    /\ handleError("none")

(* A send that every worker waiting on the channel receives. *)
SendBroadcast(w) ==
    /\ pollerPc = "dispatch"
    /\ pollMsgs # <<>>
    /\ ~chClosed
    /\ workers[w].pc = "recv"
    /\ LET i == Head(pollMsgs)
           got == {v \in Workers : workers[v].pc = "recv"}
       IN
        /\ workers' = [v \in Workers |->
                          IF v \in got THEN [pc |-> "handle", pm |-> i]
                                       ELSE workers[v]]
        /\ pms' = [pms EXCEPT ![i].owner = w,
                              ![i].handles = @ + Cardinality(got)]
    /\ pollMsgs' = Tail(pollMsgs)
    /\ pollerPc' = AfterOffer(Tail(pollMsgs))
    /\ UNCHANGED <<outside, config, rootDone, chClosed, retErr, consumeRet,
                   midHandle, queued>>
    /\ handleError("none")

(* A dispatch loop that does not send a pm whose context is done. *)
SendLive(w) ==
    /\ pollerPc = "dispatch"
    /\ pollMsgs # <<>>
    /\ ~chClosed
    /\ workers[w].pc = "recv"
    /\ LET i == Head(pollMsgs) IN
        IF pms[i].ctxDone
           THEN /\ workers' = workers
                /\ pms' = [pms EXCEPT ![i] = settle([@ EXCEPT !.owner = Released])]
           ELSE /\ workers' = [workers EXCEPT ![w] = [pc |-> "handle", pm |-> i]]
                /\ pms' = [pms EXCEPT ![i].owner = w, ![i].handles = @ + 1]
    /\ pollMsgs' = Tail(pollMsgs)
    /\ pollerPc' = AfterOffer(Tail(pollMsgs))
    /\ UNCHANGED <<outside, config, rootDone, chClosed, retErr, consumeRet, midHandle,
                   queued>>
    /\ handleError("none")

(* pollMessages: case ch <- pm, met by pm, ok := <-ch of worker w, which   *)
(* calls consumeMessage and so Handle on it; doneAtSend keeps whether the  *)
(* context of pm was done at that moment.                                  *)
Send(w) ==
    /\ pollerPc = "dispatch"
    /\ pollMsgs # <<>>
    /\ ~chClosed
    /\ workers[w].pc = "recv"
    /\ LET i == Head(pollMsgs) IN
        /\ workers' = [workers EXCEPT ![w] = [pc |-> "handle", pm |-> i]]
        /\ pms' = [pms EXCEPT ![i].owner = w, ![i].handles = @ + 1,
                              ![i].doneAtSend = pms[i].ctxDone]
    /\ pollMsgs' = Tail(pollMsgs)
    /\ pollerPc' = AfterOffer(Tail(pollMsgs))
    /\ UNCHANGED <<outside, config, rootDone, chClosed, retErr, consumeRet, midHandle,
                   queued>>
    /\ handleError("none")

(* The ctx.Done() case dropping the pm without pm.cleanup(). *)
PollerDrop ==
    /\ pollerPc = "dispatch"
    /\ pollMsgs # <<>>
    /\ rootDone
    /\ pms' = [pms EXCEPT ![Head(pollMsgs)].owner = Released]
    /\ pollMsgs' = Tail(pollMsgs)
    /\ pollerPc' = AfterOffer(Tail(pollMsgs))
    /\ UNCHANGED <<outside, config, rootDone, chClosed, retErr, consumeRet, workers,
                   midHandle, queued>>
    /\ handleError("none")

(* pollMessages: case <-ctx.Done(): pm.cleanup(), up to pm.cancel(). *)
PollerCleanupCancel ==
    /\ pollerPc = "dispatch"
    /\ pollMsgs # <<>>
    /\ rootDone
    /\ LET i == Head(pollMsgs) IN
        pms' = [pms EXCEPT ![i] =
                   [cancel(@) EXCEPT !.cleanups = @ + 1,
                                                !.cleaner = Poller]]
    /\ pollerPc' = "cleanup"
    /\ UNCHANGED <<outside, config, rootDone, pollMsgs, chClosed, retErr, consumeRet,
                   workers, midHandle, queued>>
    /\ handleError("none")

(* A select whose ctx.Done() case falls through: the pm it cleaned up is   *)
(* offered again.                                                          *)
PollerCleanupFallthrough ==
    /\ pollerPc = "cleanup"
    /\ ~pms[Head(pollMsgs)].locked
    /\ pms' = [pms EXCEPT ![Head(pollMsgs)] = unsafeCleanupTimers(@)]
    /\ pollerPc' = "dispatch"
    /\ UNCHANGED <<outside, config, rootDone, pollMsgs, chClosed, retErr, consumeRet,
                   workers, midHandle, queued>>
    /\ handleError("none")

(* ... and the rest of pm.cleanup(): pm.mu.Lock(); unsafeCleanupTimers. *)
PollerCleanupTimers ==
    /\ pollerPc = "cleanup"
    /\ LET i == Head(pollMsgs) IN
        /\ ~pms[i].locked
        /\ pms' = [pms EXCEPT ![i] =
                      settle([unsafeCleanupTimers(@) EXCEPT !.owner = Released])]
    /\ pollMsgs' = Tail(pollMsgs)
    /\ pollerPc' = AfterOffer(Tail(pollMsgs))
    /\ UNCHANGED <<outside, config, rootDone, chClosed, retErr, consumeRet, workers,
                   midHandle, queued>>
    /\ handleError("none")

(* pollMessages: the final select; poll hands a ctx.Err() to handleError. *)
PostDispatch ==
    /\ pollerPc = "post"
    /\ IF rootDone THEN handleError("ctx") ELSE handleError("none")
    /\ pollerPc' = "check"
    /\ UNCHANGED <<outside, config, rootDone, pollMsgs, chClosed, retErr, consumeRet,
                   workers, pms, midHandle, queued>>

(* A Consume that closes the channel while poll still runs. *)
CloseChEarly ==
    /\ ~chClosed
    /\ chClosed' = TRUE
    /\ UNCHANGED <<outside, config, rootDone, pollerPc, pollMsgs, retErr, consumeRet,
                   workers, pms, midHandle, queued>>
    /\ handleError("none")

(* Consume: close(ch) once poll has returned. *)
CloseCh ==
    /\ pollerPc = "returned"
    /\ ~chClosed
    /\ chClosed' = TRUE
    /\ UNCHANGED <<outside, config, rootDone, pollerPc, pollMsgs, retErr, consumeRet,
                   workers, pms, midHandle, queued>>
    /\ handleError("none")

(* Consume returning without wg.Wait(). *)
WgDoneNoWait == TRUE

WgDone == \A w \in Workers : workers[w].pc = "exit"

(* Consume: wg.Wait(); return err. *)
ConsumeReturn ==
    /\ chClosed
    /\ WgDone
    /\ consumeRet = "none"
    /\ consumeRet' = retErr
    /\ UNCHANGED <<outside, config, rootDone, pollerPc, pollMsgs, chClosed, retErr,
                   workers, pms, midHandle, queued>>
    /\ handleError("none")

----------------------------------------------------------------------------
(* startWorker: pm, ok := <-ch with !ok. *)
WorkerExit(w) ==
    /\ workers[w].pc = "recv"
    /\ chClosed
    /\ workers' = [workers EXCEPT ![w].pc = "exit"]
    /\ UNCHANGED <<outside, config, rootDone, pollerPc, pollMsgs, chClosed, retErr,
                   consumeRet, pms, midHandle, queued>>
    /\ handleError("none")

(* A worker that calls AckMessage as soon as Handle returns, before        *)
(* cleanup.                                                                *)
HandleReturnAckFirst(w, ack) ==
    /\ workers[w].pc = "handle"
    /\ LET i == workers[w].pm IN
        pms' = [pms EXCEPT ![i] =
                   IF ack THEN [@ EXCEPT !.res = "ack", !.acks = @ + 1]
                   ELSE [cancel(@) EXCEPT !.res = "noack",
                                          !.cleanups = @ + 1,
                                          !.cleaner = w]]
    /\ workers' = [workers EXCEPT ![w].pc = IF ack THEN "ack" ELSE "cleanup"]
    /\ UNCHANGED <<outside, config, rootDone, pollerPc, pollMsgs, chClosed, retErr,
                   consumeRet, midHandle, queued>>
    /\ handleError("none")

(* handleMsg: h.Handle returns res; the deferred pm.cleanup() starts with  *)
(* pm.cancel().                                                            *)
HandleReturn(w, ack) ==
    /\ workers[w].pc = "handle"
    /\ LET i == workers[w].pm IN
        pms' = [pms EXCEPT ![i] =
                   [cancel(@) EXCEPT
                       !.res = IF ack THEN "ack" ELSE "noack",
                       !.cleanups = @ + 1,
                       !.cleaner = w]]
    /\ workers' = [workers EXCEPT ![w].pc = "cleanup"]
    /\ UNCHANGED <<outside, config, rootDone, pollerPc, pollMsgs, chClosed, retErr,
                   consumeRet, midHandle, queued>>
    /\ handleError("none")

shouldAckMessage(pm) == pm.res = "ack"

(* An ackMessage whose context is derived from the context of pm. *)
ackMessageCtxLease(pm) == pm.ctxDone

(* Whether the context ackMessage derives for AckMessage is done when the  *)
(* call starts: it is derived from the ctx given to Consume, which         *)
(* startWorker and consumeMessage pass on.                                 *)
ackMessageCtx(pm) == rootDone

(* handleMsg: the rest of pm.cleanup(); then consumeMessage either returns *)
(* nil or starts ackMessage; ackDone keeps whether the context of that     *)
(* call was done when it started.                                          *)
WorkerCleanupTimers(w) ==
    /\ workers[w].pc = "cleanup"
    /\ LET i == workers[w].pm IN
        /\ ~pms[i].locked
        /\ IF shouldAckMessage(pms[i])
              THEN /\ pms' = [pms EXCEPT ![i] =
                               [unsafeCleanupTimers(@) EXCEPT
                                   !.acks = @ + 1,
                                   !.ackDone = ackMessageCtx(pms[i])]]
                   /\ workers' = [workers EXCEPT ![w].pc = "ack"]
              ELSE /\ pms' = [pms EXCEPT ![i] =
                               settle([unsafeCleanupTimers(@) EXCEPT
                                          !.owner = Released])]
                   /\ workers' = [workers EXCEPT ![w] = [pc |-> "recv", pm |-> 0]]
    /\ UNCHANGED <<outside, config, rootDone, pollerPc, pollMsgs, chClosed, retErr,
                   consumeRet, midHandle, queued>>
    /\ handleError("none")

(* A worker that calls AckMessage again after an error. *)
AckReturnRetry(w, ok) ==
    /\ workers[w].pc = "ack"
    /\ IF ok
          THEN /\ handleError("none")
               /\ pms' = [pms EXCEPT ![workers[w].pm] =
                             settle([@ EXCEPT !.owner = Released])]
               /\ workers' = [workers EXCEPT ![w] = [pc |-> "recv", pm |-> 0]]
          ELSE /\ handleError("ack")
               /\ pms[workers[w].pm].acks < 2
               /\ pms' = [pms EXCEPT ![workers[w].pm].acks = @ + 1]
               /\ workers' = workers
    /\ UNCHANGED <<outside, config, rootDone, pollerPc, pollMsgs, chClosed, retErr,
                   consumeRet, midHandle, queued>>

(* A worker that returns from startWorker when ackMessage fails. *)
AckReturnFatal(w, ok) ==
    /\ workers[w].pc = "ack"
    /\ IF ok THEN handleError("none") ELSE handleError("ack")
    /\ pms' = [pms EXCEPT ![workers[w].pm] = settle([@ EXCEPT !.owner = Released])]
    /\ workers' = [workers EXCEPT
                      ![w] = [pc |-> IF ok THEN "recv" ELSE "exit", pm |-> 0]]
    /\ UNCHANGED <<outside, config, rootDone, pollerPc, pollMsgs, chClosed,
                   retErr, consumeRet, midHandle, queued>>

(* ackMessage returns; startWorker hands an error to handleError and loops. *)
AckReturn(w, ok) ==
    /\ workers[w].pc = "ack"
    /\ IF ok THEN handleError("none") ELSE handleError("ack")
    /\ pms' = [pms EXCEPT ![workers[w].pm] = settle([@ EXCEPT !.owner = Released])]
    /\ workers' = [workers EXCEPT ![w] = [pc |-> "recv", pm |-> 0]]
    /\ UNCHANGED <<outside, config, rootDone, pollerPc, pollMsgs, chClosed, retErr,
                   consumeRet, midHandle, queued>>

----------------------------------------------------------------------------
Others == <<outside, config, rootDone, pollerPc, pollMsgs, chClosed, retErr, consumeRet,
            workers, queued, midHandle>>

(* The expiry timer fires: func() { pm.cancel() }. *)
ExpiryFire(i) ==
    /\ pms[i].expiryTimer = 0
    /\ pms' = [pms EXCEPT ![i] =
                  [cancel(@) EXCEPT !.expiryTimer = FiredTimer]]
    /\ UNCHANGED Others
    /\ handleError("none")

(* A deferred registerTimers that does not look at the context. *)
deferRegisterBlind(pm) == [pm EXCEPT !.epc = "arm", !.locked = TRUE, !.retries = 0]

(* The deferred registerTimers of extend, up to its ctx check: with the    *)
(* context done it returns, otherwise it goes on holding pm.mu.            *)
deferRegister(pm) ==
    IF pm.ctxDone
       THEN settle([pm EXCEPT !.epc = "idle", !.retries = 0, !.sleep = 0])
       ELSE [pm EXCEPT !.epc = "arm", !.locked = TRUE, !.retries = 0]

(* An extend without its first select. *)
ExtendFireUnchecked(i) ==
    /\ pms[i].extendTimer = 0
    /\ pms' = [pms EXCEPT ![i] =
                  [@ EXCEPT !.extendTimer = FiredTimer,
                            !.epc = "call", !.retries = 0, !.el = 0]]
    /\ UNCHANGED Others
    /\ handleError("none")

(* The extend timer fires and runs pm.extend in its own goroutine: the     *)
(* first select, then either the deferred registerTimers or the first      *)
(* updateVisibility.                                                       *)
ExtendFire(i) ==
    /\ pms[i].extendTimer = 0
    /\ pms' = [pms EXCEPT ![i] =
                  IF @.ctxDone
                     THEN deferRegister([@ EXCEPT !.extendTimer = FiredTimer])
                     ELSE [@ EXCEPT !.extendTimer = FiredTimer,
                                    !.epc = "call", !.retries = 0, !.el = 0]]
    /\ UNCHANGED Others
    /\ handleError("none")

(* Seconds between the two timers of one arming. *)
Margin == expiryDur(visibilityTimeout) - extendDur(visibilityTimeout)

(* extend: updateVisibility returns nil; return, and the deferred          *)
(* registerTimers takes pm.mu and looks at the context.                    *)
UpdateVisibilityOk(i) ==
    /\ pms[i].epc = "call"
    /\ ~pms[i].locked
    /\ pms' = [pms EXCEPT ![i] =
                  deferRegister([@ EXCEPT !.renewed = TRUE, !.el = 0,
                                          !.inMargin = @ /\ pms[i].el < Margin])]
    /\ UNCHANGED Others
    /\ handleError("none")

(* An extend that cancels the context when updateVisibility fails. *)
UpdateVisibilityErrorCancel(i) ==
    /\ pms[i].epc = "call"
    /\ handleError("renew")
    /\ pms' = [pms EXCEPT ![i] =
                  [cancel(@) EXCEPT !.epc = "sleep", !.retries = @ + 1,
                                    !.sleep = pms[i].retries + 1, !.el = 0,
                                    !.inMargin = FALSE]]
    /\ UNCHANGED Others

(* An extend that returns after its second failed updateVisibility. *)
UpdateVisibilityErrorGiveUp(i) ==
    /\ pms[i].epc = "call"
    /\ ~pms[i].locked
    /\ handleError("renew")
    /\ pms' = [pms EXCEPT ![i] =
                  IF pms[i].retries + 1 >= 2
                     THEN deferRegister([@ EXCEPT !.el = 0, !.inMargin = FALSE])
                     ELSE [@ EXCEPT !.epc = "sleep", !.retries = @ + 1,
                                    !.sleep = pms[i].retries + 1, !.el = 0,
                                    !.inMargin = FALSE]]
    /\ UNCHANGED Others

(* extend: updateVisibility returns an error; handleError, retries++ and   *)
(* the select on ctx.Done() and time.After(retries * time.Second).         *)
UpdateVisibilityError(i) ==
    /\ pms[i].epc = "call"
    /\ handleError("renew")
    /\ pms' = [pms EXCEPT ![i] =
                  [@ EXCEPT !.epc = "sleep", !.retries = @ + 1,
                            !.sleep = pms[i].retries + 1, !.el = 0,
                            !.inMargin = FALSE]]
    /\ UNCHANGED Others

(* extend: case <-time.After(...): the next updateVisibility. *)
BackoffElapsed(i) ==
    /\ pms[i].epc = "sleep"
    /\ pms[i].sleep = 0
    /\ pms' = [pms EXCEPT ![i].epc = "call", ![i].el = 0]
    /\ UNCHANGED Others
    /\ handleError("none")

(* extend: case <-pm.ctx.Done(): return, and the deferred registerTimers   *)
(* finds the context done.                                                 *)
BackoffCancelled(i) ==
    /\ pms[i].epc = "sleep"
    /\ pms[i].ctxDone
    /\ ~pms[i].locked
    /\ pms' = [pms EXCEPT ![i] = deferRegister(@)]
    /\ UNCHANGED Others
    /\ handleError("none")

(* registerTimers under pm.mu after its ctx check: unsafeCleanupTimers,    *)
(* both time.AfterFunc calls, pm.mu.Unlock().                              *)
RegisterArm(i) ==
    /\ pms[i].epc = "arm"
    /\ pms' = [pms EXCEPT ![i] =
                  settle([armTimers(@) EXCEPT !.epc = "idle", !.locked = FALSE])]
    /\ UNCHANGED Others
    /\ handleError("none")

(* A goroutine of pm that can take a step without waiting for anything. *)
Urgent(pm) ==
    \/ pm.expiryTimer = 0
    \/ pm.extendTimer = 0
    \/ pm.epc = "arm"
    \/ pm.epc = "sleep" /\ (pm.sleep = 0 \/ pm.ctxDone)
    \/ pm.epc = "call" /\ (pm.ctxDone \/ pm.el >= RenewTimeout)

(* Whether the passing of time changes pm. *)
Timed(pm) ==
    \/ Armed(pm.expiryTimer)
    \/ Armed(pm.extendTimer)
    \/ pm.epc \in {"sleep", "call"}

Dec(t) == IF t > 0 THEN t - 1 ELSE t

(* One second passes. *)
Tick ==
    /\ \A i \in Pms : ~Urgent(pms[i])
    /\ \E i \in Pms : Timed(pms[i])
    /\ pms' = [i \in Pms |->
                 [pms[i] EXCEPT
                    !.expiryTimer = Dec(@),
                    !.extendTimer = Dec(@),
                    !.sleep = Dec(@),
                    !.el = IF pms[i].epc = "call" THEN @ + 1 ELSE @,
                    !.age = IF visibilityTimeout > 0 /\ ~pms[i].ctxDone
                               THEN @ + 1 ELSE @]]
    /\ UNCHANGED Others
    /\ handleError("none")

----------------------------------------------------------------------------
Next ==
    \/ CancelRoot
    \/ PollCheck
    \/ GetMessagesError
    \/ \E n \in 0..MessageCount : GetMessagesOk(n)
    \/ \E w \in Workers : Send(w)
    \/ PollerCleanupCancel
    \/ PollerCleanupTimers
    \/ PostDispatch
    \/ CloseCh
    \/ ConsumeReturn
    \/ \E w \in Workers : WorkerExit(w)
    \/ \E w \in Workers : \E ack \in BOOLEAN : HandleReturn(w, ack)
    \/ \E w \in Workers : WorkerCleanupTimers(w)
    \/ \E w \in Workers : \E ok \in BOOLEAN : AckReturn(w, ok)
    \/ \E i \in Pms : ExpiryFire(i)
    \/ \E i \in Pms : ExtendFire(i)
    \/ \E i \in Pms : UpdateVisibilityOk(i)
    \/ \E i \in Pms : UpdateVisibilityError(i)
    \/ \E i \in Pms : BackoffElapsed(i)
    \/ \E i \in Pms : BackoffCancelled(i)
    \/ \E i \in Pms : RegisterArm(i)
    \/ Tick

Spec == Init /\ [][Next]_vars

(* What the scheduler and the stated assumptions guarantee: every         *)
(* goroutine that can take a step takes it, time passes, every Queue call  *)
(* returns, and a Handler whose context is done returns.  Nothing makes    *)
(* the caller cancel, and a Handler whose context is live may run on.      *)
HandlerObeys ==
    \E w \in Workers : \E ack \in BOOLEAN :
        /\ workers[w].pc = "handle"
        /\ pms[workers[w].pm].ctxDone
        /\ HandleReturn(w, ack)

Fairness ==
    /\ WF_vars(PollCheck)
    /\ WF_vars(GetMessagesError \/ \E n \in 0..MessageCount : GetMessagesOk(n))
    /\ WF_vars(\E w \in Workers : Send(w))
    /\ WF_vars(PollerCleanupCancel)
    /\ WF_vars(PollerCleanupTimers)
    /\ WF_vars(PostDispatch)
    /\ WF_vars(CloseCh)
    /\ WF_vars(ConsumeReturn)
    /\ WF_vars(\E w \in Workers : WorkerExit(w))
    /\ WF_vars(HandlerObeys)
    /\ WF_vars(\E w \in Workers : WorkerCleanupTimers(w))
    /\ WF_vars(\E w \in Workers : \E ok \in BOOLEAN : AckReturn(w, ok))
    /\ WF_vars(\E i \in Pms : ExpiryFire(i))
    /\ WF_vars(\E i \in Pms : ExtendFire(i))
    /\ WF_vars(\E i \in Pms : UpdateVisibilityOk(i) \/ UpdateVisibilityError(i))
    /\ WF_vars(\E i \in Pms : BackoffElapsed(i) \/ BackoffCancelled(i))
    /\ WF_vars(\E i \in Pms : RegisterArm(i))
    /\ WF_vars(Tick)

FairSpec == Init /\ [][Next]_vars /\ Fairness

----------------------------------------------------------------------------
(* pollMessage.cleanup called on one pollMessage by several goroutines,    *)
(* at any moment of the life of its timers and of its extend goroutine.    *)

(* The goroutines that call cleanup on the pollMessage. *)
MaxCallers == 2

Callers == 1..MaxCallers

CleanupInit ==
    /\ \E c \in Configs :
          numWorkers = c[1] /\ visibilityTimeout = c[2] /\ errHandler = c[3]
    /\ rootDone = FALSE
    /\ pollerPc = "dispatch"
    /\ pollMsgs = <<1>>
    /\ chClosed = FALSE
    /\ retErr = "none"
    /\ consumeRet = "none"
    /\ workers = [w \in 1..numWorkers |-> [pc |-> "recv", pm |-> 0]]
    /\ pms = <<registerTimers(newPollMessage)>>
    /\ queued = 0
    /\ lastErr = "none"
    /\ calls = 0
    /\ midHandle = -1
    /\ callers = [pc |-> [c \in Callers |-> "idle"], overlap |-> FALSE]
    /\ sem = <<>>
    /\ procs = <<>>
    /\ dyn = <<>>
    /\ dl = <<>>
    /\ lc = <<>>

(* cleanup: pm.cancel(), then the caller waits for pm.mu.  overlap records *)
(* that another call was between its cancel and its unlock.                *)
CleanupCancel(c) ==
    /\ callers.pc[c] = "idle"
    /\ pms' = [pms EXCEPT ![1] = cancel(@)]
    /\ callers' = [pc |-> [callers.pc EXCEPT ![c] = "lock"],
                   overlap |-> \/ callers.overlap
                               \/ \E d \in Callers : callers.pc[d] = "lock"]
    /\ UNCHANGED <<config, rootDone, pollerPc, pollMsgs, chClosed, retErr,
                   consumeRet, workers, queued, midHandle, sem, procs, dyn,
                   dl, lc>>
    /\ handleError("none")

(* cleanup: pm.mu.Lock(); pm.unsafeCleanupTimers(); pm.mu.Unlock(). *)
CleanupTimers(c) ==
    /\ callers.pc[c] = "lock"
    /\ ~pms[1].locked
    /\ pms' = [pms EXCEPT ![1] = unsafeCleanupTimers(@)]
    /\ callers' = [callers EXCEPT !.pc[c] = "done"]
    /\ UNCHANGED <<config, rootDone, pollerPc, pollMsgs, chClosed, retErr,
                   consumeRet, workers, queued, midHandle, sem, procs, dyn,
                   dl, lc>>
    /\ handleError("none")

CleanupNext ==
    \/ \E c \in Callers : CleanupCancel(c)
    \/ \E c \in Callers : CleanupTimers(c)
    \/ \E i \in Pms : ExpiryFire(i)
    \/ \E i \in Pms : ExtendFire(i)
    \/ \E i \in Pms : UpdateVisibilityOk(i)
    \/ \E i \in Pms : UpdateVisibilityError(i)
    \/ \E i \in Pms : BackoffElapsed(i)
    \/ \E i \in Pms : BackoffCancelled(i)
    \/ \E i \in Pms : RegisterArm(i)
    \/ Tick

CleanupSpec == CleanupInit /\ [][CleanupNext]_vars

----------------------------------------------------------------------------
(* registerTimers on one new pollMessage, for every visibility timeout of  *)
(* 1 to MaxVis units of time.Duration, and the timers running down.        *)

MaxVis == 120

ArmInit ==
    /\ numWorkers = 1
    /\ visibilityTimeout \in 1 .. MaxVis
    /\ errHandler = FALSE
    /\ rootDone = FALSE
    /\ pollerPc = "fetch"
    /\ pollMsgs = <<>>
    /\ chClosed = FALSE
    /\ retErr = "none"
    /\ consumeRet = "none"
    /\ workers = <<[pc |-> "recv", pm |-> 0]>>
    /\ pms = <<newPollMessage>>
    /\ queued = 0
    /\ lastErr = "none"
    /\ calls = 0
    /\ midHandle = -1
    /\ callers = <<>>
    /\ sem = <<>>
    /\ procs = <<>>
    /\ dyn = <<>>
    /\ dl = <<>>
    /\ lc = <<>>

(* pollMessages: pm.registerTimers() on the pm it has just built. *)
Arm ==
    /\ pollerPc = "fetch"
    /\ pms' = [pms EXCEPT ![1] = registerTimers(@)]
    /\ pollerPc' = "dispatch"
    /\ UNCHANGED <<outside, config, rootDone, pollMsgs, chClosed, retErr,
                   consumeRet, workers, midHandle, queued>>
    /\ handleError("none")

ArmNext ==
    \/ Arm
    \/ ExtendFire(1)
    \/ ExpiryFire(1)
    \/ Tick

ArmSpec == ArmInit /\ [][ArmNext]_vars

----------------------------------------------------------------------------
(* semaphore.Semaphore: a golang.org/x/sync/semaphore.Weighted of `active` *)
(* tokens behind an atomic counter that admits at most active + queued.    *)
(* Goroutines call AcquireN with a context of their own and, when it       *)
(* returned nil, ReleaseN with the same weight.                            *)

MaxProcs == 3
MaxWeight == 2

Procs == 1..MaxProcs
Weights == 1..MaxWeight

(* Arguments New accepts without a panic: <<active, queued>>. *)
SemConfigs == {<<1, 0>>, <<1, 1>>, <<2, 1>>}

consumer == <<config, rootDone, pollerPc, pollMsgs, chClosed, retErr,
              consumeRet, workers, pms, queued, lastErr, calls, midHandle>>

(* No Consumer has been started. *)
NoConsumer ==
    /\ numWorkers = 1 /\ visibilityTimeout = 0 /\ errHandler = FALSE
    /\ rootDone = FALSE
    /\ pollerPc = "check"
    /\ pollMsgs = <<>>
    /\ chClosed = FALSE
    /\ retErr = "none"
    /\ consumeRet = "none"
    /\ workers = <<>>
    /\ pms = <<>>
    /\ queued = 0
    /\ lastErr = "none"
    /\ calls = 0
    /\ midHandle = -1
    /\ callers = <<>>

(* A weighted semaphore: the tokens taken, its size, the queue of waiters  *)
(* <<goroutine, weight>> and the waiters whose ready channel was closed.   *)
NewWeighted(n) == [size |-> n, cur |-> 0, waiters |-> <<>>, ready |-> {}]

(* The first waiters of the queue take their tokens while there are        *)
(* enough for the very first.                                              *)
RECURSIVE lockedRelease(_)
lockedRelease(w) ==
    IF w.waiters = <<>> THEN w
    ELSE LET next == Head(w.waiters) IN
         IF w.size - w.cur < next.n THEN w
         ELSE lockedRelease([w EXCEPT !.cur = @ + next.n,
                                      !.waiters = Tail(@),
                                      !.ready = @ \cup {next.p}])

Remove(w, p) == [w EXCEPT !.waiters = SelectSeq(@, LAMBDA e : e.p # p)]

(* New(active, queued); bad records the panic of ReleaseN. *)
New(active, waiting) ==
    [max |-> active + waiting, total |-> 0, w |-> NewWeighted(active),
     ret |-> "none", bad |-> FALSE]

IdleProc == [pc |-> "idle", n |-> 0, c |-> 0, ctxDone |-> FALSE]

SemInit ==
    /\ NoConsumer
    /\ \E a \in SemConfigs : sem = New(a[1], a[2])
    /\ procs = [p \in Procs |-> IdleProc]
    /\ dyn = <<>>
    /\ dl = <<>>
    /\ lc = <<>>

notSem == <<consumer, callers, dyn, dl, lc>>

(* Goroutine p calls AcquireN(ctx, n) with a context not yet cancelled. *)
AcquireN(p, n) ==
    /\ procs[p].pc = "idle"
    /\ procs' = [procs EXCEPT ![p] = [IdleProc EXCEPT !.pc = "load", !.n = n]]
    /\ sem' = [sem EXCEPT !.ret = "none"]
    /\ UNCHANGED notSem

(* The context p gave to the AcquireN it is in is cancelled. *)
CancelCtx(p) ==
    /\ procs[p].pc \in {"load", "cas", "acquire", "wait", "doomed"}
    /\ ~procs[p].ctxDone
    /\ procs' = [procs EXCEPT ![p].ctxDone = TRUE]
    /\ sem' = [sem EXCEPT !.ret = "none"]
    /\ UNCHANGED notSem

(* AcquireN: c := atomic.LoadInt64(&s.total) and the comparison with max. *)
AcqLoad(p) ==
    /\ procs[p].pc = "load"
    /\ IF sem.total + procs[p].n > sem.max
          THEN /\ procs' = [procs EXCEPT ![p] = IdleProc]
               /\ sem' = [sem EXCEPT !.ret = "ErrTooManyQueued"]
          ELSE /\ procs' = [procs EXCEPT ![p].pc = "cas", ![p].c = sem.total]
               /\ sem' = [sem EXCEPT !.ret = "none"]
    /\ UNCHANGED notSem

(* AcquireN writing c+n to total without comparing it with c. *)
AcqStore(p) ==
    /\ procs[p].pc = "cas"
    /\ sem' = [sem EXCEPT !.total = procs[p].c + procs[p].n, !.ret = "none"]
    /\ procs' = [procs EXCEPT ![p].pc = "acquire", ![p].c = 0]
    /\ UNCHANGED notSem

(* AcquireN: atomic.CompareAndSwapInt64(&s.total, c, c+n), or continue. *)
AcqCas(p) ==
    /\ procs[p].pc = "cas"
    /\ IF sem.total = procs[p].c
          THEN /\ sem' = [sem EXCEPT !.total = @ + procs[p].n, !.ret = "none"]
               /\ procs' = [procs EXCEPT ![p].pc = "acquire", ![p].c = 0]
          ELSE /\ sem' = [sem EXCEPT !.ret = "none"]
               /\ procs' = [procs EXCEPT ![p].pc = "load", ![p].c = 0]
    /\ UNCHANGED notSem

(* s.sem.Acquire(ctx, n) up to its select.  With the context already done  *)
(* it returns ctx.Err() at once or goes on as if it were live, depending   *)
(* on the version of the library.                                          *)
WeightedAcquire(p) ==
    /\ procs[p].pc = "acquire"
    /\ LET n == procs[p].n
           w == sem.w
       IN
        \/ /\ procs[p].ctxDone
           /\ procs' = [procs EXCEPT ![p].pc = "failed"]
           /\ sem' = [sem EXCEPT !.ret = "none"]
        \/ IF w.size - w.cur >= n /\ w.waiters = <<>>
              THEN /\ sem' = [sem EXCEPT !.w.cur = @ + n, !.ret = "nil"]
                   /\ procs' = [procs EXCEPT ![p].pc = "held",
                                             ![p].ctxDone = FALSE]
              ELSE IF n > w.size
              THEN /\ sem' = [sem EXCEPT !.ret = "none"]
                   /\ procs' = [procs EXCEPT ![p].pc = "doomed"]
              ELSE /\ sem' = [sem EXCEPT
                                 !.w.waiters = Append(@, [p |-> p, n |-> n]),
                                 !.ret = "none"]
                   /\ procs' = [procs EXCEPT ![p].pc = "wait"]
    /\ UNCHANGED notSem

(* s.sem.Acquire: case <-ready: return nil. *)
WeightedReady(p) ==
    /\ procs[p].pc = "wait"
    /\ p \in sem.w.ready
    /\ sem' = [sem EXCEPT !.w.ready = @ \ {p}, !.ret = "nil"]
    /\ procs' = [procs EXCEPT ![p].pc = "held", ![p].ctxDone = FALSE]
    /\ UNCHANGED notSem

(* s.sem.Acquire: case <-ctx.Done().  A waiter that was given its tokens   *)
(* meanwhile keeps them and returns nil, or puts them back and returns     *)
(* ctx.Err(); one that was not leaves the queue, after which the library   *)
(* may or may not wake the waiters behind it.                              *)
WeightedCancelled(p) ==
    /\ procs[p].pc = "wait"
    /\ procs[p].ctxDone
    /\ IF p \in sem.w.ready
          THEN \/ /\ sem' = [sem EXCEPT !.w.ready = @ \ {p}, !.ret = "nil"]
                  /\ procs' = [procs EXCEPT ![p].pc = "held",
                                            ![p].ctxDone = FALSE]
               \/ /\ sem' = [sem EXCEPT
                                !.w = lockedRelease(
                                          [@ EXCEPT !.cur = @ - procs[p].n,
                                                    !.ready = @ \ {p}]),
                                !.ret = "none"]
                  /\ procs' = [procs EXCEPT ![p].pc = "failed"]
          ELSE /\ \E w \in {Remove(sem.w, p), lockedRelease(Remove(sem.w, p))} :
                    sem' = [sem EXCEPT !.w = w, !.ret = "none"]
               /\ procs' = [procs EXCEPT ![p].pc = "failed"]
    /\ UNCHANGED notSem

(* s.sem.Acquire with n above the size: <-ctx.Done(); return ctx.Err(). *)
WeightedDoomed(p) ==
    /\ procs[p].pc = "doomed"
    /\ procs[p].ctxDone
    /\ procs' = [procs EXCEPT ![p].pc = "failed"]
    /\ sem' = [sem EXCEPT !.ret = "none"]
    /\ UNCHANGED notSem

(* AcquireN returning the error of s.sem.Acquire and leaving total alone. *)
AcqFailedKeep(p) ==
    /\ procs[p].pc = "failed"
    /\ sem' = [sem EXCEPT !.ret = "ctxErr"]
    /\ procs' = [procs EXCEPT ![p] = IdleProc]
    /\ UNCHANGED notSem

(* AcquireN: err != nil: atomic.AddInt64(&s.total, -n); return err. *)
AcqFailed(p) ==
    /\ procs[p].pc = "failed"
    /\ sem' = [sem EXCEPT !.total = @ - procs[p].n, !.ret = "ctxErr"]
    /\ procs' = [procs EXCEPT ![p] = IdleProc]
    /\ UNCHANGED notSem

(* ReleaseN: s.sem.Release(n). *)
ReleaseSem(p) ==
    /\ procs[p].pc = "held"
    /\ sem' = [sem EXCEPT
                  !.w = lockedRelease([@ EXCEPT !.cur = @ - procs[p].n]),
                  !.ret = "none"]
    /\ procs' = [procs EXCEPT ![p].pc = "released"]
    /\ UNCHANGED notSem

(* ReleaseN: c := atomic.AddInt64(&s.total, -n); panic if c < 0. *)
ReleaseTotal(p) ==
    /\ procs[p].pc = "released"
    /\ sem' = [sem EXCEPT !.total = @ - procs[p].n,
                          !.bad = @ \/ sem.total - procs[p].n < 0,
                          !.ret = "none"]
    /\ procs' = [procs EXCEPT ![p] = IdleProc]
    /\ UNCHANGED notSem

SemNext ==
    \/ \E p \in Procs : \E n \in Weights : AcquireN(p, n)
    \/ \E p \in Procs : CancelCtx(p)
    \/ \E p \in Procs : AcqLoad(p)
    \/ \E p \in Procs : AcqCas(p)
    \/ \E p \in Procs : WeightedAcquire(p)
    \/ \E p \in Procs : WeightedReady(p)
    \/ \E p \in Procs : WeightedCancelled(p)
    \/ \E p \in Procs : WeightedDoomed(p)
    \/ \E p \in Procs : AcqFailed(p)
    \/ \E p \in Procs : ReleaseSem(p)
    \/ \E p \in Procs : ReleaseTotal(p)

SemSpec == SemInit /\ [][SemNext]_vars

----------------------------------------------------------------------------
(* semaphore.Dynamic: a weighted semaphore under one mutex whose size      *)
(* SetMaxWeight may change.  Each critical section is one step.            *)

MaxSize == 2

NewDynamic(n) ==
    [size |-> n, cur |-> 0, waiters |-> <<>>, ready |-> {},
     ret |-> "none", bad |-> FALSE]

DynInit ==
    /\ NoConsumer
    /\ sem = <<>>
    /\ \E n \in 0..MaxSize : dyn = NewDynamic(n)
    /\ procs = [p \in Procs |-> IdleProc]
    /\ dl = <<>>
    /\ lc = <<>>

notDyn == <<consumer, callers, sem, dl, lc>>

(* AcquireN(ctx, n) up to its select, with a context that may be done      *)
(* already: the tokens at once, the wait of a doomed request, or a place   *)
(* in the queue.                                                           *)
DynAcquireN(p, n, done) ==
    /\ procs[p].pc = "idle"
    /\ IF dyn.size - dyn.cur >= n /\ dyn.waiters = <<>>
          THEN /\ dyn' = [dyn EXCEPT !.cur = @ + n, !.ret = "nil"]
               /\ procs' = [procs EXCEPT
                                ![p] = [IdleProc EXCEPT !.pc = "held", !.n = n]]
          ELSE IF n > dyn.size /\ dyn.size > 0
          THEN /\ dyn' = [dyn EXCEPT !.ret = "none"]
               /\ procs' = [procs EXCEPT
                                ![p] = [IdleProc EXCEPT !.pc = "doomed", !.n = n,
                                                        !.ctxDone = done]]
          ELSE /\ dyn' = [dyn EXCEPT !.waiters = Append(@, [p |-> p, n |-> n]),
                                     !.ret = "none"]
               /\ procs' = [procs EXCEPT
                                ![p] = [IdleProc EXCEPT !.pc = "wait", !.n = n,
                                                        !.ctxDone = done]]
    /\ UNCHANGED notDyn

(* The context p gave to the AcquireN it is blocked in is cancelled. *)
DynCancelCtx(p) ==
    /\ procs[p].pc \in {"wait", "doomed"}
    /\ ~procs[p].ctxDone
    /\ procs' = [procs EXCEPT ![p].ctxDone = TRUE]
    /\ dyn' = [dyn EXCEPT !.ret = "none"]
    /\ UNCHANGED notDyn

(* AcquireN: <-ctx.Done(); return ctx.Err() of a request above the size. *)
DynDoomed(p) ==
    /\ procs[p].pc = "doomed"
    /\ procs[p].ctxDone
    /\ procs' = [procs EXCEPT ![p] = IdleProc]
    /\ dyn' = [dyn EXCEPT !.ret = "ctxErr"]
    /\ UNCHANGED notDyn

(* AcquireN: case <-ready: return nil. *)
DynReady(p) ==
    /\ procs[p].pc = "wait"
    /\ p \in dyn.ready
    /\ dyn' = [dyn EXCEPT !.ready = @ \ {p}, !.ret = "nil"]
    /\ procs' = [procs EXCEPT ![p].pc = "held", ![p].ctxDone = FALSE]
    /\ UNCHANGED notDyn

(* The ctx.Done() case returning ctx.Err() with the waiter left in the     *)
(* queue.                                                                  *)
DynCancelledKeep(p) ==
    /\ procs[p].pc = "wait"
    /\ procs[p].ctxDone
    /\ IF p \in dyn.ready
          THEN /\ dyn' = [dyn EXCEPT !.ready = @ \ {p}, !.ret = "nil"]
               /\ procs' = [procs EXCEPT ![p].pc = "held", ![p].ctxDone = FALSE]
          ELSE /\ dyn' = [dyn EXCEPT !.ret = "ctxErr"]
               /\ procs' = [procs EXCEPT ![p] = IdleProc]
    /\ UNCHANGED notDyn

(* AcquireN: case <-ctx.Done(): under the mutex, nil if ready was closed   *)
(* meanwhile, otherwise the waiter is removed and ctx.Err() returned.      *)
DynCancelled(p) ==
    /\ procs[p].pc = "wait"
    /\ procs[p].ctxDone
    /\ IF p \in dyn.ready
          THEN /\ dyn' = [dyn EXCEPT !.ready = @ \ {p}, !.ret = "nil"]
               /\ procs' = [procs EXCEPT ![p].pc = "held", ![p].ctxDone = FALSE]
          ELSE /\ dyn' = [Remove(dyn, p) EXCEPT !.ret = "ctxErr"]
               /\ procs' = [procs EXCEPT ![p] = IdleProc]
    /\ UNCHANGED notDyn

(* A TryAcquireN that does not look at the queue. *)
TryAcquireNBarge(p, n) ==
    /\ procs[p].pc = "idle"
    /\ IF dyn.size - dyn.cur >= n
          THEN /\ dyn' = [dyn EXCEPT !.cur = @ + n, !.ret = "true"]
               /\ procs' = [procs EXCEPT
                                ![p] = [IdleProc EXCEPT !.pc = "held", !.n = n]]
          ELSE /\ dyn' = [dyn EXCEPT !.ret = "false"]
               /\ procs' = procs
    /\ UNCHANGED notDyn

(* TryAcquireN(n). *)
TryAcquireN(p, n) ==
    /\ procs[p].pc = "idle"
    /\ IF dyn.size - dyn.cur >= n /\ dyn.waiters = <<>>
          THEN /\ dyn' = [dyn EXCEPT !.cur = @ + n, !.ret = "true"]
               /\ procs' = [procs EXCEPT
                                ![p] = [IdleProc EXCEPT !.pc = "held", !.n = n]]
          ELSE /\ dyn' = [dyn EXCEPT !.ret = "false"]
               /\ procs' = procs
    /\ UNCHANGED notDyn

(* ReleaseN(n) by a goroutine that acquired n. *)
DynReleaseN(p) ==
    /\ procs[p].pc = "held"
    /\ dyn' = [lockedRelease([dyn EXCEPT !.cur = @ - procs[p].n]) EXCEPT
                  !.bad = @ \/ dyn.cur - procs[p].n < 0,
                  !.ret = "none"]
    /\ procs' = [procs EXCEPT ![p] = IdleProc]
    /\ UNCHANGED notDyn

(* SetMaxWeight(n). *)
SetMaxWeight(n) ==
    /\ n # dyn.size
    /\ dyn' = [(IF n > dyn.size THEN lockedRelease([dyn EXCEPT !.size = n])
                                ELSE [dyn EXCEPT !.size = n])
                  EXCEPT !.ret = "none"]
    /\ UNCHANGED procs
    /\ UNCHANGED notDyn

DynNext ==
    \/ \E p \in Procs : \E n \in Weights : \E done \in BOOLEAN :
          DynAcquireN(p, n, done)
    \/ \E p \in Procs : DynCancelCtx(p)
    \/ \E p \in Procs : DynDoomed(p)
    \/ \E p \in Procs : DynReady(p)
    \/ \E p \in Procs : DynCancelled(p)
    \/ \E p \in Procs : \E n \in Weights : TryAcquireN(p, n)
    \/ \E p \in Procs : DynReleaseN(p)
    \/ \E n \in 0..MaxSize : SetMaxWeight(n)

DynSpec == DynInit /\ [][DynNext]_vars

----------------------------------------------------------------------------
(* distlock.DistributedLock.Do: one call, the extender goroutine it starts *)
(* and the renewExpiry goroutine the extender starts.  Time is counted in  *)
(* seconds; a step that does not block takes no time.                      *)

(* <<TTLSeconds, MaxRetries, RetryBaseDuration in seconds>>. *)
DlConfigs == {<<10, 0, 1>>, <<10, 1, 1>>}

(* Above this many, calls of Locker.Extend are no longer told apart. *)
MaxExtends == 2

(* DistributedLock.UnlockTimeout, in seconds. *)
UnlockTimeout == 2

Results == {"nil", "ErrLockNotHeld", "err"}

extendInterval(ttl) == ttl \div 2

(* An expiry armed at 190% of the TTL. *)
renewIntervalLong(ttl) == (19 * ttl) \div 10

renewInterval(ttl) == (9 * ttl) \div 10

DlInit ==
    /\ NoConsumer
    /\ sem = <<>>
    /\ procs = <<>>
    /\ dyn = <<>>
    /\ lc = <<>>
    /\ \E c \in DlConfigs :
          dl = [ttl |-> c[1], maxRetries |-> c[2], retryBase |-> c[3],
                doPc |-> "lock", ret |-> "none", lockRes |-> "none",
                parentDone |-> FALSE, ctxDone |-> FALSE,
                fnCalls |-> 0, extendCalls |-> 0, unlockCalls |-> 0,
                epc |-> "off", t |-> NilTimer, retries |-> 0, sleep |-> 0,
                rpc |-> "off", rt |-> NilTimer,
                age |-> 0, extRes |-> "none",
                ut |-> NilTimer, unlockRes |-> "none"]

notDl == <<consumer, callers, sem, procs, dyn, lc>>

(* The caller cancels the context it gave to Do; the context Do derived    *)
(* from it is done with it.                                                *)
ParentCancel ==
    /\ ~dl.parentDone
    /\ dl.doPc # "done"
    /\ dl' = [dl EXCEPT !.parentDone = TRUE,
                        !.ctxDone = @ \/ dl.lockRes = "nil"]
    /\ UNCHANGED notDl

(* Do going on to the function whatever Lock returned. *)
DoLockAnyway(res) ==
    /\ dl.doPc = "lock"
    /\ dl' = [dl EXCEPT !.lockRes = res,
                        !.ctxDone = dl.parentDone,
                        !.epc = "start",
                        !.fnCalls = @ + 1,
                        !.doPc = "fn"]
    /\ UNCHANGED notDl

(* Do: Lock returns res.  With an error Do returns it; otherwise it        *)
(* derives ctx, starts the extender goroutine and calls fn(ctx).           *)
DoLock(res) ==
    /\ dl.doPc = "lock"
    /\ dl' = IF res # "nil"
                THEN [dl EXCEPT !.lockRes = res, !.ret = res, !.doPc = "done"]
                ELSE [dl EXCEPT !.lockRes = res,
                                !.ctxDone = dl.parentDone,
                                !.epc = "start",
                                !.fnCalls = @ + 1,
                                !.doPc = "fn"]
    /\ UNCHANGED notDl

(* fn returns; the deferred function starts: cancel(), then wg.Wait(). *)
FnReturn ==
    /\ dl.doPc = "fn"
    /\ dl' = [dl EXCEPT !.ctxDone = TRUE, !.doPc = "wait"]
    /\ UNCHANGED notDl

(* A deferred function without wg.Wait(). *)
DoUnlockNoWait ==
    /\ dl.doPc = "wait"
    /\ dl' = [dl EXCEPT !.unlockCalls = @ + 1, !.doPc = "unlock",
                        !.ut = UnlockTimeout]
    /\ UNCHANGED notDl

(* The deferred function: wg.Wait() returns and Unlock is called with a    *)
(* context of its own, derived from context.Background() and done after    *)
(* UnlockTimeout: ut is the time it has left.                              *)
DoUnlock ==
    /\ dl.doPc = "wait"
    /\ dl.epc = "exit"
    /\ dl' = [dl EXCEPT !.unlockCalls = @ + 1, !.doPc = "unlock",
                        !.ut = UnlockTimeout]
    /\ UNCHANGED notDl

(* Unlock returns res, which is what Do returns; uCancel(). *)
UnlockReturn(res) ==
    /\ dl.doPc = "unlock"
    /\ dl' = [dl EXCEPT !.ret = res, !.unlockRes = res, !.doPc = "done",
                        !.ut = NilTimer]
    /\ UNCHANGED notDl

(* extender: the renewExpiry goroutine is started and the extend timer     *)
(* created.                                                                *)
ExtenderStart ==
    /\ dl.epc = "start"
    /\ dl' = [dl EXCEPT !.epc = "timer", !.t = extendInterval(dl.ttl),
                        !.rpc = "start"]
    /\ UNCHANGED notDl

(* extender: case <-ctx.Done(): return. *)
ExtenderCtxDone ==
    /\ dl.epc = "timer"
    /\ dl.ctxDone
    /\ dl' = [dl EXCEPT !.epc = "cancel", !.t = IF Armed(@) THEN FiredTimer ELSE @]
    /\ UNCHANGED notDl

CountExtend(n) == IF n < MaxExtends THEN n + 1 ELSE n

(* extender: case <-t.C, and d.extend makes its first Extend call. *)
ExtenderTimer ==
    /\ dl.epc = "timer"
    /\ dl.t = 0
    /\ dl' = [dl EXCEPT !.epc = "extend", !.t = FiredTimer, !.retries = 0,
                        !.extendCalls = CountExtend(@)]
    /\ UNCHANGED notDl

(* extend: Locker.Extend returns res, kept in extRes; age counts the       *)
(* seconds the derived context has been live since Lock or the latest      *)
(* Extend returned nil.                                                    *)
ExtendReturn(res) ==
    /\ dl.epc = "extend"
    /\ dl' = IF res = "nil"
                THEN [dl EXCEPT !.epc = "signal", !.retries = 0,
                                !.extRes = res, !.age = 0]
             ELSE IF res = "ErrLockNotHeld" \/ dl.retries + 1 > dl.maxRetries
                THEN [dl EXCEPT !.epc = "cancel", !.retries = 0, !.extRes = res]
                ELSE [dl EXCEPT !.epc = "backoff", !.retries = @ + 1,
                                !.extRes = res,
                                !.sleep = (dl.retries + 1) * (dl.retries + 1)
                                             * dl.retryBase]
    /\ UNCHANGED notDl

(* extend: case <-time.After(dur): the next Extend call. *)
DlBackoffElapsed ==
    /\ dl.epc = "backoff"
    /\ dl.sleep = 0
    /\ dl' = [dl EXCEPT !.epc = "extend", !.extendCalls = CountExtend(@)]
    /\ UNCHANGED notDl

(* extend: case <-ctx.Done(): return false. *)
DlBackoffCancelled ==
    /\ dl.epc = "backoff"
    /\ dl.ctxDone
    /\ dl' = [dl EXCEPT !.epc = "cancel", !.retries = 0, !.sleep = 0]
    /\ UNCHANGED notDl

(* extender after a successful extend: the send on chRenewExpiry, taken    *)
(* by renewExpiry if it is at its select and dropped otherwise, and        *)
(* resetTimer of the extend timer.                                         *)
ExtenderSignal ==
    /\ dl.epc = "signal"
    /\ dl' = [dl EXCEPT !.epc = "timer", !.t = extendInterval(dl.ttl),
                        !.rpc = IF @ = "select" THEN "reset" ELSE @]
    /\ UNCHANGED notDl

(* renewExpiry: case <-chRenewExpiry: resetTimer(t, dur), and back to the  *)
(* select.                                                                 *)
RenewReset ==
    /\ dl.rpc = "reset"
    /\ dl' = [dl EXCEPT !.rpc = "select", !.rt = renewInterval(dl.ttl)]
    /\ UNCHANGED notDl

(* The goroutine of Do after d.extender returned: cancel(); wg.Done(). *)
ExtenderExit ==
    /\ dl.epc = "cancel"
    /\ dl' = [dl EXCEPT !.epc = "exit", !.ctxDone = TRUE]
    /\ UNCHANGED notDl

(* renewExpiry: t := time.NewTimer(dur). *)
RenewStart ==
    /\ dl.rpc = "start"
    /\ dl' = [dl EXCEPT !.rpc = "select", !.rt = renewInterval(dl.ttl)]
    /\ UNCHANGED notDl

(* renewExpiry: case <-ctx.Done() or case <-t.C: return. *)
RenewReturn ==
    /\ dl.rpc = "select"
    /\ dl.ctxDone \/ dl.rt = 0
    /\ dl' = [dl EXCEPT !.rpc = "cancel", !.rt = FiredTimer]
    /\ UNCHANGED notDl

(* The goroutine of extender after renewExpiry returned: cancel(). *)
RenewCancel ==
    /\ dl.rpc = "cancel"
    /\ dl' = [dl EXCEPT !.rpc = "exit", !.ctxDone = TRUE]
    /\ UNCHANGED notDl

(* A goroutine of Do that is slow to reach its select: renewExpiry takes   *)
(* time to create its timer and to reset it.                               *)
DlUrgentLax ==
    \/ dl.epc \in {"start", "signal", "cancel"}
    \/ dl.rpc = "cancel"
    \/ dl.epc = "timer" /\ (dl.t = 0 \/ dl.ctxDone)
    \/ dl.epc = "backoff" /\ (dl.sleep = 0 \/ dl.ctxDone)
    \/ dl.rpc = "select" /\ (dl.rt = 0 \/ dl.ctxDone)
    \/ dl.doPc = "wait" /\ dl.epc = "exit"

(* A goroutine of Do can take a step without waiting for anything. *)
DlUrgent ==
    \/ dl.epc \in {"start", "signal", "cancel"}
    \/ dl.rpc \in {"start", "reset", "cancel"}
    \/ dl.epc = "timer" /\ (dl.t = 0 \/ dl.ctxDone)
    \/ dl.epc = "backoff" /\ (dl.sleep = 0 \/ dl.ctxDone)
    \/ dl.rpc = "select" /\ (dl.rt = 0 \/ dl.ctxDone)
    \/ dl.doPc = "wait" /\ dl.epc = "exit"

(* One second passes. *)
DlTick ==
    /\ ~DlUrgent
    /\ dl.t > 0 \/ dl.rt > 0 \/ dl.sleep > 0 \/ dl.ut > 0
    /\ dl' = [dl EXCEPT !.t = Dec(@), !.rt = Dec(@), !.sleep = Dec(@),
                        !.ut = Dec(@),
                        !.age = IF dl.lockRes = "nil" /\ ~dl.ctxDone
                                   THEN @ + 1 ELSE @]
    /\ UNCHANGED notDl

DlNext ==
    \/ ParentCancel
    \/ \E res \in Results : DoLock(res)
    \/ FnReturn
    \/ DoUnlock
    \/ \E res \in Results : UnlockReturn(res)
    \/ ExtenderStart
    \/ ExtenderCtxDone
    \/ ExtenderTimer
    \/ \E res \in Results : ExtendReturn(res)
    \/ DlBackoffElapsed
    \/ DlBackoffCancelled
    \/ ExtenderSignal
    \/ ExtenderExit
    \/ RenewStart
    \/ RenewReset
    \/ RenewReturn
    \/ RenewCancel
    \/ DlTick

DlSpec == DlInit /\ [][DlNext]_vars

----------------------------------------------------------------------------
(* LifeCycle: processes started with Start, and one call of Wait.          *)

MaxLcProcs == 2
MaxGrace == 2

LcProcs == 1 .. MaxLcProcs
Outcomes == {"err", "nil", "panic"}

(* An error is the name of the process it came from, 0 for none, and a     *)
(* text; nilErr is Go's nil.                                               *)
nilErr == <<0, "nil">>

(* ctx.Err() of a cancelled context. *)
ctxErr == <<0, "context canceled">>

(* Start's deferred function: the error it hands to setError for process p *)
(* whose fn ended with out: a panic and a nil return are replaced, and the *)
(* name is put in front.                                                   *)
processErr(p, out) ==
    <<p, IF out = "panic" THEN "recovered from panic"
         ELSE IF out = "nil" THEN "nil error returned from process"
         ELSE "err">>

(* setError that stores the error on every call. *)
setErrorAlways(l, e) == [l EXCEPT !.once = TRUE, !.err = e, !.ctxDone = TRUE]

(* setError: once.Do stores the error and cancels the context. *)
setError(l, e) ==
    IF l.once THEN l
    ELSE [l EXCEPT !.once = TRUE, !.err = e, !.ctxDone = TRUE]

(* getError *)
getError(l) == l.err

LcInit ==
    /\ NoConsumer
    /\ sem = <<>>
    /\ procs = <<>>
    /\ dyn = <<>>
    /\ dl = <<>>
    /\ lc = [parentDone |-> FALSE, ctxDone |-> FALSE, once |-> FALSE,
             err |-> nilErr, wg |-> 0,
             pc |-> [p \in LcProcs |-> "new"],
             perr |-> [p \in LcProcs |-> nilErr],
             waitPc |-> "idle", grace |-> 0, timer |-> NilTimer,
             shut |-> "off", ret |-> nilErr, how |-> "none"]

notLc == <<consumer, callers, sem, procs, dyn, dl>>

(* The parent context given to New is cancelled. *)
LcParentCancel ==
    /\ ~lc.parentDone
    /\ lc' = [lc EXCEPT !.parentDone = TRUE, !.ctxDone = TRUE]
    /\ UNCHANGED notLc

(* Start: wg.Add(1) and the goroutine that runs fn. *)
Start(p) ==
    /\ lc.pc[p] = "new"
    /\ lc.waitPc \in {"idle", "ctx"}
    /\ lc' = [lc EXCEPT !.pc[p] = "run", !.wg = @ + 1]
    /\ UNCHANGED notLc

(* fn returns or panics: the deferred function calls wg.Done and builds    *)
(* the error.                                                              *)
ProcReturn(p, out) ==
    /\ lc.pc[p] = "run"
    /\ lc' = [lc EXCEPT !.pc[p] = "deferred", !.wg = @ - 1,
                        !.perr[p] = processErr(p, out)]
    /\ UNCHANGED notLc

(* The deferred function calls setError. *)
ProcSetError(p) ==
    /\ lc.pc[p] = "deferred"
    /\ lc' = setError([lc EXCEPT !.pc[p] = "exited"], lc.perr[p])
    /\ UNCHANGED notLc

(* Wait(gracefulTimeout) is called. *)
WaitCall(g) ==
    /\ lc.waitPc = "idle"
    /\ lc' = [lc EXCEPT !.waitPc = "ctx", !.grace = g]
    /\ UNCHANGED notLc

(* Wait: the context is done; setError(ctx.Err()), the goroutine of        *)
(* wg.Wait and time.After(gracefulTimeout).                                *)
WaitCtxDone ==
    /\ lc.waitPc = "ctx"
    /\ lc.ctxDone
    /\ lc' = setError([lc EXCEPT !.waitPc = "select", !.shut = "wait",
                                 !.timer = lc.grace], ctxErr)
    /\ UNCHANGED notLc

(* Wait's goroutine: wg.Wait returns, chIsShutdown is closed. *)
ShutdownClose ==
    /\ lc.shut = "wait"
    /\ lc.wg = 0
    /\ lc' = [lc EXCEPT !.shut = "closed"]
    /\ UNCHANGED notLc

(* Wait: case <-chIsShutdown *)
WaitShutdown ==
    /\ lc.waitPc = "select"
    /\ lc.shut = "closed"
    /\ lc' = [lc EXCEPT !.waitPc = "returned", !.ret = getError(lc),
                        !.how = "shutdown"]
    /\ UNCHANGED notLc

(* Wait: case <-time.After(gracefulTimeout) *)
WaitTimeout ==
    /\ lc.waitPc = "select"
    /\ lc.timer = 0
    /\ lc' = [lc EXCEPT !.waitPc = "returned", !.ret = getError(lc),
                        !.how = "timeout"]
    /\ UNCHANGED notLc

(* One second passes while Wait is in its select. *)
LcTick ==
    /\ lc.waitPc = "select"
    /\ lc.timer > 0
    /\ lc' = [lc EXCEPT !.timer = @ - 1]
    /\ UNCHANGED notLc

LcNext ==
    \/ LcParentCancel
    \/ \E p \in LcProcs : Start(p)
    \/ \E p \in LcProcs, out \in Outcomes : ProcReturn(p, out)
    \/ \E p \in LcProcs : ProcSetError(p)
    \/ \E g \in 0 .. MaxGrace : WaitCall(g)
    \/ WaitCtxDone
    \/ ShutdownClose
    \/ WaitShutdown
    \/ WaitTimeout
    \/ LcTick

LcSpec == LcInit /\ [][LcNext]_vars

(* The goroutine of a process that has returned runs on to its setError. *)
LcFairSpec == LcSpec /\ WF_vars(\E p \in LcProcs : ProcSetError(p))

----------------------------------------------------------------------------
TypeOK ==
    /\ \E c \in Configs :
          numWorkers = c[1] /\ visibilityTimeout = c[2] /\ errHandler = c[3]
    /\ rootDone \in BOOLEAN
    /\ queued >= 0

Returned == consumeRet # "none"

(* A pollMessage some goroutine has still to clean up. *)
Live(i) == pms[i].cleanups = 0

(* C1: Consume returns only after poll has returned, the channel has been  *)
(* closed and every worker has exited, so no Handler call is in progress   *)
(* when Consume returns.                                                   *)
C1_ShutdownDrains ==
    Returned =>
        /\ pollerPc = "returned"
        /\ chClosed
        /\ \A w \in Workers : workers[w].pc = "exit"

(* Consume has returned after a cancellation that found each of two       *)
(* workers inside Handle.                                                  *)
C1_Witness == Returned /\ numWorkers > 1 /\ midHandle = numWorkers

(* C2: once the root context is cancelled, the context of every            *)
(* pollMessage not yet cleaned up is cancelled.                            *)
C2_RootCancelsLeases ==
    rootDone => \A i \in Pms : Live(i) => pms[i].ctxDone

(* C3: a Handler result without shouldAck never leads to an AckMessage     *)
(* call, and one with shouldAck leads to exactly one, whatever AckMessage  *)
(* returns: never two, and one by the time the worker lets go of the pm.   *)
C3_AckGating ==
    \A i \in Pms :
        /\ pms[i].acks <= 1
        /\ pms[i].res # "ack" => pms[i].acks = 0
        /\ pms[i].res = "ack" /\ pms[i].owner = Released => pms[i].acks = 1
        /\ \A w \in Workers :
              workers[w].pc = "ack" /\ workers[w].pm = i => pms[i].acks = 1

(* An AckMessage call has failed, its worker is receiving again, and the   *)
(* message was acknowledged once.                                          *)
C3_Witness ==
    /\ lastErr = "ack"
    /\ \E i \in Pms :
          pms[i].res = "ack" /\ pms[i].owner = Released /\ pms[i].acks = 1
    /\ \E i \in Pms :
          pms[i].res = "noack" /\ pms[i].owner = Released /\ pms[i].acks = 0

Dispatched == {i \in Pms : pms[i].owner \in Workers /\ Live(i)}

(* C4: at most numWorkers pollMessages are dispatched to a worker and not  *)
(* yet cleaned up.                                                         *)
C4_Backpressure == Cardinality(Dispatched) <= numWorkers

(* Every worker is inside Handle and the poller holds a pm it cannot       *)
(* hand over although the queue has more.                                  *)
C4_Witness ==
    /\ Cardinality(Dispatched) = numWorkers
    /\ pollerPc = "dispatch"
    /\ queued > 0

Rearmed(i) ==
    \/ ~Armed(pms[i].expiryTimer) /\ Armed(pms'[i].expiryTimer)
    \/ ~Armed(pms[i].extendTimer) /\ Armed(pms'[i].extendTimer)

(* C5: with a visibility timeout and no successful renewal, a context is   *)
(* live for at most 0.9 x visibilityTimeout after its timers were armed;   *)
(* a cancelled context stays cancelled, and its timers are not armed       *)
(* again.                                                                  *)
C5_ExpiryCancels ==
    /\ [](\A i \in Pms :
            visibilityTimeout > 0 /\ ~pms[i].renewed /\ ~pms[i].ctxDone
                => 10 * pms[i].age <= 9 * visibilityTimeout)
    /\ [][\A i \in Pms :
            pms[i].ctxDone =>
                /\ pms'[i].ctxDone
                /\ ~pms[i].renewed => ~Rearmed(i)]_vars

(* The expiry timer has cancelled the context of a pm whose renewal has    *)
(* failed at least twice and is still being retried.                       *)
C5_Witness ==
    \E i \in Pms :
        /\ pms[i].ctxDone
        /\ pms[i].expiryTimer = FiredTimer
        /\ ~pms[i].renewed
        /\ pms[i].epc = "sleep"
        /\ pms[i].retries >= 2
        /\ pms[i].owner \in Workers

(* Every renewal call of pm so far returned nil less than                  *)
(* 0.4 x visibilityTimeout after it started, and so may the one in flight. *)
Timely(pm) ==
    /\ pm.inMargin
    /\ pm.epc = "call" => pm.el < Margin

(* This step is the expiry timer of pm i cancelling a live context. *)
ExpiryCancels(i) ==
    /\ ~pms[i].ctxDone
    /\ pms[i].expiryTimer = 0
    /\ pms'[i].ctxDone
    /\ pms'[i].expiryTimer = FiredTimer

(* C6: the expiry timer never cancels the context of a pm whose renewal    *)
(* calls all succeeded within the margin between the two timers.           *)
C6_NoFalseExpiry ==
    [][\A i \in Pms : ExpiryCancels(i) => ~Timely(pms[i])]_vars

(* A pm in a worker's hands, renewed in time, whose second extend timer    *)
(* is due: it has lived a whole visibility timeout.                        *)
C6_Witness ==
    \E i \in Pms :
        /\ ~pms[i].ctxDone
        /\ pms[i].renewed
        /\ pms[i].inMargin
        /\ pms[i].extendTimer = 0
        /\ pms[i].owner \in Workers

(* C7: poll and Consume return only with the root context cancelled, and   *)
(* what Consume returns is the root context's error.                       *)
C7_ReturnsOnlyOnCancel ==
    /\ pollerPc = "returned" => rootDone /\ retErr = "Canceled"
    /\ Returned => rootDone /\ consumeRet = "Canceled"
    /\ ~rootDone => pollerPc # "returned" /\ ~chClosed /\ ~Returned

(* A fetch error has been reported and poll is about to fetch again. *)
C7_Witness ==
    /\ lastErr = "fetch"
    /\ pollerPc = "check"
    /\ ~rootDone

(* C8: once the root context is cancelled, Consume returns. *)
C8_ShutdownTerminates == rootDone ~> Returned

(* C9: every pm is cleaned up at most once, by the worker it was handed to *)
(* or else by the poller, and once by the time it is let go of.            *)
C9_SingleOwnerCleanup ==
    \A i \in Pms :
        /\ pms[i].cleanups <= 1
        /\ pms[i].cleanups = 1 /\ pms[i].owner # Released
              => pms[i].cleaner = pms[i].owner
        /\ pms[i].owner = Released => pms[i].cleanups = 1

(* The poller is cleaning up a pm it could not hand over while a worker    *)
(* has cleaned up the pm it was handed.                                    *)
C9_Witness ==
    /\ pollerPc = "cleanup"
    /\ pms[Head(pollMsgs)].cleaner = Poller
    /\ \E w \in Workers :
          /\ workers[w].pc \in {"cleanup", "ack"}
          /\ pms[workers[w].pm].cleaner = w

(* C10: when Consume returns, every pm ever created has its context        *)
(* cancelled and neither timer armed.                                      *)
C10_NoLeaseLeaked ==
    Returned =>
        \A i \in Pms :
            /\ pms[i].ctxDone
            /\ ~Armed(pms[i].expiryTimer)
            /\ ~Armed(pms[i].extendTimer)
            /\ pms[i].epc # "arm"

(* Consume has returned after a cancellation that found a pm with a        *)
(* visibility timeout in a worker's hands.                                 *)
C10_Witness ==
    /\ Returned
    /\ visibilityTimeout > 0
    /\ Len(pms) > 0
    /\ midHandle > 0

(* C11: however many times and however interleaved cleanup is called on   *)
(* a pollMessage, no timer is stopped more than once, and once any call    *)
(* has returned the context is cancelled and both timer slots are nil: a   *)
(* second call changes nothing.                                            *)
C11_CleanupIdempotent ==
    \A i \in Pms :
        /\ pms[i].expiryStops <= 1
        /\ pms[i].extendStops <= 1
        /\ (\E c \in DOMAIN callers.pc : callers.pc[c] = "done") =>
              /\ pms[i].ctxDone
              /\ pms[i].expiryTimer = NilTimer
              /\ pms[i].extendTimer = NilTimer

(* Two overlapping cleanup calls have both returned on a pollMessage whose *)
(* timers had been armed again after a renewal: each timer was stopped     *)
(* once.                                                                   *)
C11_Witness ==
    /\ \A c \in Callers : callers.pc[c] = "done"
    /\ callers.overlap
    /\ pms[1].renewed
    /\ pms[1].expiryStops = 1
    /\ pms[1].extendStops = 1

(* C12: a pollMessage sent on the channel is received by one worker, and  *)
(* Handle is called on it once: no pollMessage is handled twice, no two    *)
(* workers hold the same one, and one that was never sent is never         *)
(* handled.                                                                *)
C12_HandledOnce ==
    /\ \A i \in Pms :
          /\ pms[i].handles <= 1
          /\ pms[i].owner \in Workers =>
                /\ pms[i].handles = 1
                /\ workers[pms[i].owner].pm = i
                /\ workers[pms[i].owner].pc \in {"handle", "cleanup", "ack"}
          /\ pms[i].res # "none" => pms[i].handles = 1
          /\ pms[i].owner = Poller => pms[i].handles = 0
    /\ \A w \in Workers :
          /\ workers[w].pc \in {"handle", "cleanup", "ack"} =>
                /\ workers[w].pm \in Pms
                /\ pms[workers[w].pm].owner = w
          /\ \A v \in Workers :
                v # w /\ workers[w].pm # 0 => workers[v].pm # workers[w].pm

(* Two workers are inside Handle, each on its own pollMessage, after a     *)
(* third pollMessage was handled and let go of.                            *)
C12_Witness ==
    /\ numWorkers = 2
    /\ \A w \in Workers : workers[w].pc = "handle"
    /\ workers[1].pm # workers[2].pm
    /\ \E i \in Pms :
          pms[i].owner = Released /\ pms[i].res # "none" /\ pms[i].handles = 1

EmptyFetch == pollerPc = "fetch" /\ pollerPc' \notin {"fetch", "dispatch"}

(* C14: a fetch that returns an error or no message creates no            *)
(* pollMessage and offers none, hands the error, if any, to errHandler     *)
(* once, or to no one when errHandler is nil, and poll loops: it neither   *)
(* returns nor changes what it will return.                                *)
C14_EmptyFetchLoops ==
    [][EmptyFetch =>
          /\ pms' = pms
          /\ pollMsgs = <<>> /\ pollMsgs' = <<>>
          /\ workers' = workers
          /\ pollerPc' = "check"
          /\ retErr' = retErr
          /\ lastErr' \in {"none", "fetch"}
          /\ calls' = IF lastErr' = "fetch" /\ errHandler THEN 1 ELSE 0]_vars

(* With a nil errHandler a fetch has failed, no one was told, and poll is  *)
(* back at the top of its loop with messages still in the queue.           *)
C14_Witness ==
    /\ ~errHandler
    /\ lastErr = "fetch"
    /\ calls = 0
    /\ pollerPc = "check"
    /\ ~rootDone
    /\ queued > 0

(* C15: when ackMessage returns, with an error or without, its worker is  *)
(* back at the receive on the channel; an error is handed to errHandler    *)
(* once; and a worker exits only from that receive, on a closed channel.   *)
C15_AckFailureNotFatal ==
    [][\A w \in Workers :
          /\ workers[w].pc = "ack" /\ workers'[w] # workers[w] =>
                /\ workers'[w] = [pc |-> "recv", pm |-> 0]
                /\ lastErr' \in {"none", "ack"}
                /\ calls' = IF lastErr' = "ack" /\ errHandler THEN 1 ELSE 0
          /\ workers[w].pc # "exit" /\ workers'[w].pc = "exit" =>
                workers[w].pc = "recv" /\ chClosed]_vars

(* An AckMessage call has just failed and been reported; its worker is at  *)
(* the receive and the poller is offering it the next pollMessage.         *)
C15_Witness ==
    /\ lastErr = "ack"
    /\ calls = 1
    /\ numWorkers = 1
    /\ workers[1].pc = "recv"
    /\ pollerPc = "dispatch"
    /\ pollMsgs # <<>>
    /\ ~chClosed

Sent(i) == pms[i].handles > 0

(* C16: pollMessages are numbered in the order the queue returned them;    *)
(* each one sent on the channel has a higher number than every one sent    *)
(* before it, and one that was passed over was cleaned up by the poller    *)
(* after the root context was cancelled.                                   *)
C16_FetchOrder ==
    /\ [][\A i \in Pms :
            ~Sent(i) /\ pms'[i].handles > 0 =>
                \A j \in Pms : Sent(j) => j < i]_vars
    /\ [](\A i \in Pms : \A j \in 1..(i - 1) :
            Sent(i) /\ ~Sent(j) => rootDone /\ pms[j].cleanups = 1)

(* After the cancellation the poller cleaned up the first pollMessage of   *)
(* a batch of two and a worker received the second; an earlier one had     *)
(* been sent before.                                                       *)
C16_Witness ==
    \E i \in Pms : \E j \in 1..(i - 1) : \E k \in 1..(j - 1) :
        /\ Sent(i) /\ ~Sent(j) /\ Sent(k)
        /\ pms[j].cleanups = 1

(* The weight of the AcquireN calls of the goroutines in S. *)
RECURSIVE WeightOf(_)
WeightOf(S) ==
    IF S = {} THEN 0
    ELSE LET p == CHOOSE q \in S : TRUE IN procs[p].n + WeightOf(S \ {p})

(* Goroutines that hold tokens of the semaphore or are inside              *)
(* s.sem.Acquire waiting for them.                                         *)
HoldOrWait == {p \in Procs : procs[p].pc \in {"acquire", "wait", "doomed", "held"}}

(* Goroutines between the compare-and-swap of AcquireN and the decrement   *)
(* that undoes it.                                                         *)
Counted ==
    {p \in Procs :
        procs[p].pc \in {"acquire", "wait", "doomed", "failed", "held", "released"}}

(* C17: the weight held or waited for is at most total, and total at most  *)
(* active + queued; an AcquireN that finds total + n above that returns    *)
(* ErrTooManyQueued in the same step, and that return changes neither      *)
(* total nor the weighted semaphore.                                       *)
C17_QueueBounded ==
    /\ [](/\ WeightOf(HoldOrWait) <= sem.total
          /\ sem.total <= sem.max
          /\ sem.w.cur <= sem.w.size)
    /\ [][/\ \A p \in Procs :
               procs[p].pc = "load" /\ procs'[p].pc # "load" =>
                  IF sem.total + procs[p].n > sem.max
                     THEN procs'[p].pc = "idle" /\ sem'.ret = "ErrTooManyQueued"
                     ELSE procs'[p].pc = "cas" /\ sem'.ret = "none"
           /\ sem'.ret = "ErrTooManyQueued" =>
                  sem'.total = sem.total /\ sem'.w = sem.w]_vars

(* AcquireN has just returned ErrTooManyQueued with total at its maximum,  *)
(* one goroutine holding the semaphore and another waiting for it.         *)
C17_Witness ==
    /\ sem.ret = "ErrTooManyQueued"
    /\ sem.total = sem.max
    /\ \E p \in Procs : procs[p].pc = "held"
    /\ \E p \in Procs : procs[p].pc = "wait"

(* C18: an AcquireN returns ctx.Err() only with its context cancelled and  *)
(* takes its weight out of total as it does; total is the weight of the    *)
(* calls between their compare-and-swap and their decrement, so it is 0,   *)
(* with every token back, once every call has returned and every holder    *)
(* released; ReleaseN never panics.                                        *)
C18_CancelRestores ==
    /\ [](/\ sem.total = WeightOf(Counted)
          /\ ~sem.bad
          /\ (\A p \in Procs : procs[p].pc = "idle") =>
                /\ sem.total = 0
                /\ sem.w.cur = 0
                /\ sem.w.waiters = <<>>)
    /\ [][sem'.ret = "ctxErr" =>
            \E p \in Procs :
                /\ procs[p].pc = "failed" /\ procs[p].ctxDone
                /\ procs'[p].pc = "idle"
                /\ sem'.total = sem.total - procs[p].n
                /\ sem'.w = sem.w]_vars

(* A cancelled AcquireN has just returned ctx.Err() after waiting behind   *)
(* a holder, and total is back at the holder's weight.                     *)
C18_Witness ==
    /\ sem.ret = "ctxErr"
    /\ \E p \in Procs :
          /\ procs[p].pc = "held"
          /\ sem.total = procs[p].n
          /\ sem.w.cur = procs[p].n
    /\ sem.w.waiters = <<>>

InQueue(p) == \E k \in 1..Len(dyn.waiters) : dyn.waiters[k].p = p

(* C19: an AcquireN that returns ctx.Err() had its context cancelled and   *)
(* leaves cur, size and the other waiters as they were, with its own       *)
(* waiter out of the queue; a TryAcquireN that returns false changes       *)
(* nothing.  So the queue holds exactly the goroutines blocked in          *)
(* AcquireN that were not given their tokens, and cur is the weight of     *)
(* those that were given theirs and did not release them.                  *)
C19_FailedAcquireUnchanged ==
    /\ [][dyn'.ret = "ctxErr" =>
            \E p \in Procs :
                /\ procs[p].pc \in {"wait", "doomed"} /\ procs[p].ctxDone
                /\ procs'[p].pc = "idle"
                /\ dyn'.cur = dyn.cur /\ dyn'.size = dyn.size
                /\ dyn'.ready = dyn.ready
                /\ dyn'.waiters = Remove(dyn, p).waiters]_vars
    /\ [][dyn'.ret = "false" =>
            /\ dyn'.cur = dyn.cur /\ dyn'.size = dyn.size
            /\ dyn'.ready = dyn.ready /\ dyn'.waiters = dyn.waiters
            /\ procs' = procs]_vars
    /\ [](\A p \in Procs :
            InQueue(p) <=> procs[p].pc = "wait" /\ p \notin dyn.ready)
    /\ [](dyn.cur = WeightOf({p \in Procs :
                                procs[p].pc = "held" \/ p \in dyn.ready}))

(* A cancelled AcquireN has just returned ctx.Err() out of a queue in      *)
(* which another goroutine goes on waiting behind a holder.                *)
C19_Witness ==
    /\ dyn.ret = "ctxErr"
    /\ dyn.waiters # <<>>
    /\ dyn.cur > 0
    /\ \E p \in Procs : procs[p].pc = "held"

ExtendReturns == dl.epc = "extend" /\ dl'.epc # "extend"

(* C21: the context given to the function is never live more than 90% of  *)
(* the TTL after Lock or the latest Extend returned nil; an Extend that    *)
(* returns ErrLockNotHeld, or an error that brings the failures above      *)
(* MaxRetries, makes the extender return, and between that and the         *)
(* cancel() that follows no time passes.                                   *)
C21_ExpiryCancelsFn ==
    /\ [](dl.lockRes = "nil" /\ ~dl.ctxDone => 10 * dl.age <= 9 * dl.ttl)
    /\ [](dl.epc = "exit" => dl.ctxDone)
    /\ [][(ExtendReturns /\ dl'.extRes = "ErrLockNotHeld" => dl'.epc = "cancel")
           /\ (ExtendReturns /\ dl'.extRes = "err"
                  /\ dl.retries + 1 > dl.maxRetries => dl'.epc = "cancel")
           /\ (dl.epc = "cancel" =>
                  dl'.age = dl.age /\ (dl'.epc = "cancel" \/ dl'.ctxDone))]_vars

(* The expiry has cancelled the context while the function runs and the    *)
(* extender, after one failed Extend, waits to retry: no one else could    *)
(* have.                                                                   *)
C21_Witness ==
    /\ dl.ctxDone
    /\ ~dl.parentDone
    /\ dl.doPc = "fn"
    /\ dl.epc = "backoff"
    /\ dl.rpc = "exit"
    /\ dl.extRes = "err"
    /\ 10 * dl.age = 9 * dl.ttl

(* C22: once a process has exited, or the parent context is cancelled,    *)
(* the LifeCycle context is cancelled, and a process that has returned     *)
(* gets there; an error once recorded is never replaced; Wait returns the  *)
(* recorded error, which is not nil, and returns only when no started      *)
(* process is still running or the graceful timeout has elapsed.           *)
C22_FirstErrorKept ==
    /\ []((lc.parentDone \/ \E p \in LcProcs : lc.pc[p] = "exited")
            => lc.ctxDone)
    /\ ((\E p \in LcProcs : lc.pc[p] = "deferred") ~> lc.ctxDone)
    /\ [][lc.err # nilErr => lc'.err = lc.err]_vars
    /\ [](lc.once <=> lc.err # nilErr)
    /\ [](lc.waitPc = "returned" =>
            /\ lc.ret = lc.err
            /\ lc.ret # nilErr
            /\ \/ \A p \in LcProcs : lc.pc[p] # "run"
               \/ lc.how = "timeout" /\ lc.timer = 0)

(* Wait returned the error of process 1, which returned nil, after process *)
(* 2 had exited with another error.                                        *)
C22_Witness ==
    /\ lc.waitPc = "returned"
    /\ lc.how = "shutdown"
    /\ lc.ret = processErr(1, "nil")
    /\ lc.pc[2] = "exited"
    /\ lc.perr[2] = processErr(2, "err")

(* This step puts a new pair of timers into the slots of pm i. *)
Arms(i) ==
    /\ i \in Pms
    /\ pms'[i].expiryTimer = expiryDur(visibilityTimeout)
    /\ pms'[i].extendTimer = extendDur(visibilityTimeout)
    /\ pms[i].extendTimer # pms'[i].extendTimer

(* C23: the only timers of a pollMessage that run are the ones in its two  *)
(* slots, so at most one expiry and one extend timer: none runs on after   *)
(* its slot was overwritten, and a step that arms leaves exactly a new     *)
(* pair, never stopped, in the slots.                                      *)
C23_OnePairArmed ==
    /\ [](\A i \in Pms : pms[i].leaked = 0 /\ running(pms[i]) <= 2)
    /\ [][\A i \in Pms' : Arms(i) =>
              /\ pms'[i].leaked = 0
              /\ pms'[i].expiryStops = 0
              /\ pms'[i].extendStops = 0
              /\ running(pms'[i]) = 2]_vars

(* After a renewal the timers were armed again while the expiry timer of   *)
(* the first arming was still running.                                     *)
C23_Witness ==
    \E i \in Pms :
       /\ pms[i].renewed
       /\ pms[i].epc = "idle"
       /\ pms[i].expiryTimer = expiryDur(visibilityTimeout)
       /\ pms[i].extendTimer = extendDur(visibilityTimeout)

(* pm i is inside cleanup: its context is cancelled, its timers are not   *)
(* yet stopped.                                                            *)
InCleanup(i) ==
    \/ pollerPc = "cleanup" /\ pollMsgs # <<>> /\ Head(pollMsgs) = i
    \/ \E w \in Workers : workers[w].pc = "cleanup" /\ workers[w].pm = i

(* cleanup of pm i has returned. *)
CleanedUp(i) == i \in Pms /\ pms[i].cleanups > 0 /\ ~InCleanup(i)

(* C24: once cleanup of a pollMessage has returned, its timer slots are    *)
(* nil and stay nil, and no registerTimers holds its mutex past the ctx    *)
(* check; a step that arms its timers happens before cleanup has returned, *)
(* and a deferred registerTimers that starts after cleanup has returned    *)
(* arms nothing.                                                           *)
C24_NoArmAfterCleanup ==
    /\ [](\A i \in Pms : CleanedUp(i) =>
             /\ pms[i].ctxDone
             /\ pms[i].expiryTimer = NilTimer
             /\ pms[i].extendTimer = NilTimer
             /\ pms[i].epc # "arm"
             /\ ~pms[i].locked)
    /\ [][\A i \in Pms : /\ Arms(i) => ~CleanedUp(i)' /\ ~CleanedUp(i)
                         /\ CleanedUp(i) => CleanedUp(i)']_vars

(* A renewal has succeeded and its registerTimers holds the mutex past the *)
(* ctx check, while the worker's cleanup has cancelled the context and     *)
(* waits for the mutex.                                                    *)
C24_Witness ==
    \E i \in Pms :
       /\ InCleanup(i)
       /\ pms[i].ctxDone
       /\ pms[i].renewed
       /\ pms[i].epc = "arm"
       /\ pms[i].locked

(* The timer slots of pm i are the same after this step. *)
SameTimers(i) ==
    /\ pms'[i].expiryTimer = pms[i].expiryTimer
    /\ pms'[i].extendTimer = pms[i].extendTimer

(* C25: in extend, an updateVisibility that fails is handed to             *)
(* handleError and followed by a wait of retries seconds and the next      *)
(* call, whatever the number of failures; the loop is left only by a call  *)
(* that returns nil or, from the wait, with the context done.  Leaving     *)
(* with the context done arms nothing; leaving by a nil with the context   *)
(* live goes to the one arming of registerTimers, after which the extend   *)
(* goroutine is gone.                                                      *)
C25_RetryUntilDone ==
    [][\A i \in Pms :
          /\ pms[i].epc = "call" /\ pms'[i].epc = "sleep" =>
                /\ lastErr' = "renew"
                /\ calls' = (IF errHandler THEN 1 ELSE 0)
                /\ pms'[i].retries = pms[i].retries + 1
                /\ pms'[i].sleep = pms'[i].retries
          /\ pms[i].epc = "sleep" /\ pms'[i].epc # "sleep" =>
                \/ pms'[i].epc = "call" /\ pms'[i].retries = pms[i].retries
                \/ pms[i].ctxDone /\ pms'[i].epc = "idle" /\ SameTimers(i)
          /\ pms[i].epc = "call" /\ pms'[i].epc \notin {"call", "sleep"} =>
                /\ lastErr' = "none"
                /\ IF pms[i].ctxDone
                      THEN pms'[i].epc = "idle" /\ SameTimers(i)
                      ELSE pms'[i].epc = "arm" /\ SameTimers(i)
          /\ pms[i].epc = "arm" /\ pms'[i].epc # "arm" =>
                pms'[i].epc = "idle" /\ Arms(i)]_vars

(* After two failures, with the context live, extend calls updateVisibility *)
(* a third time.                                                           *)
C25_Witness ==
    \E i \in Pms :
       /\ pms[i].epc = "call"
       /\ pms[i].retries = 2
       /\ ~pms[i].ctxDone
       /\ lastErr = "none"

(* This step is the extend timer of pm i firing. *)
ExtendFires(i) == pms[i].extendTimer = 0 /\ pms'[i].extendTimer = FiredTimer

(* C26: when the extend timer fires with the context done, extend and its  *)
(* deferred registerTimers return at their ctx checks: no updateVisibility *)
(* is started, handleError is not called, the expiry slot is as it was and *)
(* the extend slot holds the timer that fired.                             *)
C26_FireOnDoneIsNoop ==
    [][\A i \in Pms :
          ExtendFires(i) /\ pms[i].ctxDone =>
             /\ pms'[i].epc = "idle"
             /\ ~pms'[i].locked
             /\ lastErr' = "none"
             /\ calls' = 0
             /\ pms'[i].expiryTimer = pms[i].expiryTimer
             /\ pms'[i].extendTimer = FiredTimer]_vars

(* The extend timer has fired on a context that the expiry timer of the    *)
(* arming before had cancelled: the expiry timer armed with it still runs, *)
(* no cleanup has begun and no extend is under way.                        *)
C26_Witness ==
    \E i \in Pms :
       /\ pms[i].ctxDone
       /\ pms[i].cleanups = 0
       /\ pms[i].extendTimer = FiredTimer
       /\ pms[i].expiryTimer = Margin
       /\ pms[i].epc = "idle"

(* The pollMessages the poller has created and not yet sent or cleaned up. *)
Waiting == {pollMsgs[k] : k \in 1 .. Len(pollMsgs)}

(* C27: with a visibility timeout, a pollMessage comes into being with     *)
(* both timers armed at their full durations, in the step that fetched its *)
(* message and before it is offered; while it waits to be sent its slots   *)
(* are never nil and, its context live, its expiry timer has run for       *)
(* every second since it was armed; the pm a worker receives has its       *)
(* timers registered.                                                      *)
C27_ArmedBeforeOffer ==
    /\ [](visibilityTimeout > 0 =>
            \A i \in Waiting :
               /\ pms[i].expiryTimer # NilTimer
               /\ pms[i].extendTimer # NilTimer
               /\ pms[i].handles = 0
               /\ ~pms[i].ctxDone /\ Armed(pms[i].expiryTimer) =>
                     pms[i].expiryTimer + pms[i].age
                        = expiryDur(visibilityTimeout))
    /\ [][visibilityTimeout > 0 =>
            /\ \A i \in Pms' \ Pms :
                  /\ i \in Waiting'
                  /\ pollerPc = "fetch"
                  /\ pms'[i].expiryTimer = expiryDur(visibilityTimeout)
                  /\ pms'[i].extendTimer = extendDur(visibilityTimeout)
                  /\ pms'[i].age = 0
            /\ \A i \in Pms :
                  pms'[i].handles > pms[i].handles =>
                     /\ i \in Waiting
                     /\ pms[i].expiryTimer # NilTimer
                     /\ pms[i].extendTimer # NilTimer]_vars

(* A pollMessage not yet sent to a worker whose timers have been running   *)
(* for three seconds.                                                      *)
C27_Witness ==
    /\ visibilityTimeout > 0
    /\ pollerPc = "dispatch"
    /\ \E i \in Waiting :
          /\ pms[i].handles = 0
          /\ ~pms[i].ctxDone
          /\ pms[i].age = 3
          /\ pms[i].extendTimer = extendDur(visibilityTimeout) - 3

(* C28: a worker goes from Handle to cleanup, whatever Handle returned,    *)
(* and from the end of cleanup to AckMessage exactly when the result asks  *)
(* for it, otherwise back to the channel; AckMessage is called only for a  *)
(* pollMessage that was handled once and whose one cleanup has returned.   *)
C28_HandleCleanupAck ==
    /\ [](\A i \in Pms : pms[i].acks > 0 =>
             /\ pms[i].acks = 1
             /\ pms[i].handles = 1
             /\ pms[i].res = "ack"
             /\ CleanedUp(i)
             /\ pms[i].cleanups = 1
             /\ pms[i].ctxDone
             /\ pms[i].expiryTimer = NilTimer
             /\ pms[i].extendTimer = NilTimer)
    /\ [][\A w \in Workers :
            /\ workers[w].pc = "handle" /\ workers'[w].pc # "handle" =>
                  /\ workers'[w].pc = "cleanup"
                  /\ workers'[w].pm = workers[w].pm
                  /\ pms'[workers[w].pm].cleanups = pms[workers[w].pm].cleanups + 1
                  /\ pms'[workers[w].pm].res \in {"ack", "noack"}
                  /\ pms'[workers[w].pm].acks = 0
            /\ workers[w].pc = "cleanup" /\ workers'[w].pc # "cleanup" =>
                  IF pms[workers[w].pm].res = "ack"
                     THEN /\ workers'[w].pc = "ack"
                          /\ pms'[workers[w].pm].acks = 1
                     ELSE /\ workers'[w].pc = "recv"
                          /\ pms'[workers[w].pm].acks = 0
            /\ workers'[w].pc = "ack" /\ workers[w].pc # "ack" =>
                  workers[w].pc = "cleanup"]_vars

(* A worker is in AckMessage for a pollMessage with a visibility timeout   *)
(* whose cleanup has returned.                                             *)
C28_Witness ==
    \E w \in Workers :
       /\ workers[w].pc = "ack"
       /\ visibilityTimeout > 0
       /\ pms[workers[w].pm].acks = 1
       /\ pms[workers[w].pm].cleanups = 1
       /\ pms[workers[w].pm].res = "ack"

(* C29: the channel goes from open to closed in one step, taken when poll *)
(* has returned with nothing left to send, and never back; while it is     *)
(* closed the poller is not running and no pollMessage is handed to a      *)
(* worker; a worker exits only from its receive on the closed channel, and *)
(* Consume returns only with the channel closed.                           *)
C29_ClosedOnceAfterPoll ==
    /\ [](chClosed => pollerPc = "returned" /\ pollMsgs = <<>>)
    /\ [](consumeRet # "none" => chClosed)
    /\ [](\A w \in Workers : workers[w].pc = "exit" => chClosed)
    /\ [][/\ chClosed => chClosed'
          /\ chClosed' /\ ~chClosed => pollerPc = "returned" /\ UNCHANGED pollerPc
          /\ chClosed => \A i \in Pms : pms'[i].handles = pms[i].handles
          /\ chClosed => Pms' = Pms
          /\ \A w \in Workers :
                workers'[w].pc = "exit" /\ workers[w].pc # "exit" =>
                   chClosed /\ workers[w].pc = "recv"]_vars

(* The channel is closed, one worker has left its loop and the other is    *)
(* still in Handle with the message it received before.                    *)
C29_Witness ==
    /\ chClosed
    /\ numWorkers = 2
    /\ workers[1].pc = "exit"
    /\ workers[2].pc = "handle"

(* C30: with a visibility timeout of zero or less, no pollMessage ever    *)
(* has a timer in a slot, none is ever stopped, no extend goroutine runs,  *)
(* no updateVisibility succeeds or fails, no time is measured, and a       *)
(* context is done only once cleanup has cancelled it.                     *)
C30_NoTimeoutNoRenewal ==
    visibilityTimeout <= 0 =>
         /\ lastErr # "renew"
         /\ \A i \in Pms :
               /\ pms[i].expiryTimer = NilTimer
               /\ pms[i].extendTimer = NilTimer
               /\ pms[i].expiryStops = 0
               /\ pms[i].extendStops = 0
               /\ pms[i].leaked = 0
               /\ pms[i].epc = "idle"
               /\ ~pms[i].locked
               /\ ~pms[i].renewed
               /\ pms[i].retries = 0
               /\ pms[i].age = 0
               /\ pms[i].ctxDone => pms[i].cleanups > 0

(* With a negative visibility timeout a worker is in Handle with a live    *)
(* context while an earlier pollMessage has been handled and cleaned up.   *)
C30_Witness ==
    /\ visibilityTimeout < 0
    /\ \E w \in Workers :
          /\ workers[w].pc = "handle"
          /\ ~pms[workers[w].pm].ctxDone
    /\ \E i \in Pms : pms[i].ctxDone /\ pms[i].handles = 1 /\ pms[i].cleanups = 1

C32_FailureDoesNotCancel ==
    [][\A i \in Pms :
          /\ pms[i].epc = "call" /\ lastErr' = "renew" =>
                /\ pms'[i].ctxDone = pms[i].ctxDone
                /\ SameTimers(i)
          /\ pms'[i].ctxDone /\ ~pms[i].ctxDone =>
                \/ pms[i].expiryTimer = 0 /\ pms'[i].expiryTimer = FiredTimer
                \/ pms'[i].cleanups = pms[i].cleanups + 1]_vars

(* After two failed renewals the context is live and the expiry timer      *)
(* still runs.                                                             *)
C32_Witness ==
    \E i \in Pms :
       /\ pms[i].epc = "sleep"
       /\ pms[i].retries = 2
       /\ lastErr = "renew"
       /\ ~pms[i].ctxDone
       /\ pms[i].expiryTimer > 0

(* Someone has taken pm i off the poller's hands: a worker received it or *)
(* the poller began its cleanup.                                           *)
Disposed(i) == pms[i].handles > 0 \/ pms[i].cleanups > 0

(* C33: while the poller is between rounds or in getMessages, it holds no  *)
(* pollMessage and every pollMessage made so far has been received by a    *)
(* worker or cleaned up; the pollMessages it holds are at most one fetch,  *)
(* the ones made last; a step that makes new ones starts from none held.   *)
C33_RoundsDoNotOverlap ==
    /\ [](pollerPc \in {"check", "fetch", "post", "returned"} =>
             /\ pollMsgs = <<>>
             /\ \A i \in Pms : Disposed(i))
    /\ [](/\ Len(pollMsgs) <= MessageCount
          /\ \A i \in Waiting, j \in Pms \ Waiting : j < i /\ Disposed(j))
    /\ [][Pms' # Pms =>
             /\ pollerPc = "fetch"
             /\ pollMsgs = <<>>
             /\ \A i \in Pms : Disposed(i)
             /\ Waiting' = Pms' \ Pms]_vars

(* A second fetch of two messages waits to be sent while the message of    *)
(* the first fetch is with a worker.                                       *)
C33_Witness ==
    /\ pollerPc = "dispatch"
    /\ Len(pollMsgs) = 2
    /\ Len(pms) = 3
    /\ pms[1].handles = 1
    /\ \A i \in Waiting : ~Disposed(i)

Woken == dyn'.ready \ dyn.ready

(* C35: the waiters a step wakes are the first ones of the queue, in the   *)
(* order they were queued, and the rest of the queue is what stays; a      *)
(* goroutine that is woken is no longer queued; AcquireN and TryAcquireN   *)
(* take tokens without waiting only when the queue is empty.               *)
C35_FifoNoBarging ==
    /\ [](\A p \in dyn.ready : ~InQueue(p))
    /\ [][/\ Woken # {} =>
                \E k \in 1 .. Len(dyn.waiters) :
                   /\ dyn'.waiters = SubSeq(dyn.waiters, k + 1, Len(dyn.waiters))
                   /\ Woken = {dyn.waiters[j].p : j \in 1 .. k}
          /\ \A p \in Procs :
                procs[p].pc = "idle" /\ procs'[p].pc = "held" =>
                   /\ dyn.waiters = <<>>
                   /\ dyn.size - dyn.cur >= procs'[p].n
                   /\ dyn'.ret \in {"nil", "true"}]_vars

(* A request for two tokens is first in the queue, a request for one token *)
(* waits behind it, and one token is free.                                 *)
C35_Witness ==
    /\ Len(dyn.waiters) = 2
    /\ dyn.waiters[1].n = 2
    /\ dyn.waiters[2].n = 1
    /\ dyn.size - dyn.cur = 1
    /\ dyn.ret = "false"

(* C36: whenever the queue of the Dynamic semaphore is not empty, the      *)
(* tokens that are free are fewer than the first waiter asks for.          *)
C36_NoLostWakeup ==
    dyn.waiters # <<>> => dyn.size - dyn.cur < Head(dyn.waiters).n

C38_SentWhateverItsState ==
    /\ [][\A i \in Pms :
            /\ (pms[i].owner = Poller /\ pms'[i].owner # Poller
                    /\ pms[i].cleanups = 0 =>
                   /\ pms'[i].owner \in Workers
                   /\ workers'[pms'[i].owner] = [pc |-> "handle", pm |-> i]
                   /\ pms'[i].handles = 1
                   /\ pms'[i].ctxDone = pms[i].ctxDone
                   /\ pms'[i].doneAtSend = pms[i].ctxDone)
            /\ (pms[i].owner = Poller /\ pms'[i].cleanups > pms[i].cleanups =>
                   rootDone)
            /\ (pms[i].owner \in Workers /\ pms[i].res = "ack"
                    /\ workers[pms[i].owner].pc = "cleanup"
                    /\ workers'[pms[i].owner].pc # "cleanup" =>
                   /\ workers'[pms[i].owner] = [pc |-> "ack", pm |-> i]
                   /\ pms'[i].acks = pms[i].acks + 1)]_vars
    /\ [](\A w \in Workers :
            workers[w].pc = "handle" =>
               /\ pms[workers[w].pm].handles = 1
               /\ pms[workers[w].pm].doneAtSend => pms[workers[w].pm].ctxDone)
    /\ [](\A i \in Pms :
            pms[i].owner = Released /\ pms[i].res = "ack" => pms[i].acks = 1)

(* A pollMessage whose expiry timer had cancelled its context before a     *)
(* worker received it has been handled and acked, the root context live.   *)
C38_Witness ==
    /\ ~rootDone
    /\ \E i \in Pms :
          /\ pms[i].doneAtSend
          /\ pms[i].handles = 1
          /\ pms[i].res = "ack"
          /\ pms[i].acks = 1
          /\ pms[i].owner = Released

(* C39: the context of an AckMessage call comes from the root context, not *)
(* from the pollMessage.  When a worker starts AckMessage the context of   *)
(* the pollMessage is done, cleanup having cancelled it, and the context   *)
(* of the call is done exactly if the root context is: a call started      *)
(* after the root context was cancelled has a context that is done, and    *)
(* while the root context is live no call in flight was started with a     *)
(* context that was done.                                                  *)
C39_AckCtxFromRoot ==
    /\ [][\A w \in Workers :
            workers[w].pc # "ack" /\ workers'[w].pc = "ack" =>
               /\ pms'[workers'[w].pm].acks = pms[workers'[w].pm].acks + 1
               /\ pms'[workers'[w].pm].ctxDone
               /\ pms'[workers'[w].pm].ackDone = rootDone]_vars
    /\ [](\A w \in Workers :
            workers[w].pc = "ack" /\ ~rootDone => ~pms[workers[w].pm].ackDone)

(* A worker is in AckMessage for a pollMessage whose context the expiry    *)
(* timer had cancelled before it was handled; the root context is live and *)
(* so was the context of the call when it started.                         *)
C39_Witness ==
    /\ ~rootDone
    /\ \E w \in Workers :
          /\ workers[w].pc = "ack"
          /\ pms[workers[w].pm].doneAtSend
          /\ pms[workers[w].pm].ctxDone
          /\ pms[workers[w].pm].acks = 1
          /\ ~pms[workers[w].pm].ackDone

============================================================================
